---- MODULE Spec2Model ----
(***************************************************************************)
(* State-machine model of the camera two-way-audio pipeline of             *)
(* homebridge-control4-home-connect:                                       *)
(*   - SipCall            (sip-call.ts, src/unnamed/part_000)              *)
(*   - StreamingDelegate  (src/src/camera/streamingDelegate.ts)            *)
(* and of the platform that owns the accessories:                          *)
(*   - C4HCHomebridgePlatform (platform.ts, src/unnamed/part_001)          *)
(*                                                                         *)
(* JavaScript runs one macrotask at a time and drains the microtask queue  *)
(* (promise continuations) before the next macrotask.  Every action below  *)
(* is therefore one macrotask together with all promise continuations it   *)
(* releases: a SIP response handler includes the continuation of invite()  *)
(* and of prepareStream() that awaits it.                                  *)
(*                                                                         *)
(* Operations are written as functions on a record w of the whole program  *)
(* state (World), so that a handler that calls another one is the          *)
(* composition of the two; an action commits the resulting record.         *)
(***************************************************************************)
EXTENDS Integers, Sequences, FiniteSets, TLC

VARIABLES
  \* ---- SipCall fields
  seq,            \* SipCall.seq: next cseq number
  callId,         \* SipCall.callId
  destroyed,      \* SipCall.destroyed
  \* ---- the signaling stack and the promises of SipCall
  sent,           \* every message handed to sipStack.send, in order
  calls,          \* one record per invite()/sendBye() call: its promises
  \* ---- StreamingDelegate
  sipConfig,      \* cameraConfig.sipConfig is set (then sipCall exists)
  pendingSessions,
  ongoingSessions,
  returnAudioTarget, \* cameraConfig.returnAudioTarget
  prepare,        \* per session: position of its prepareStream call
  resources,      \* per session: socket, timer, processes, relay, ports
  host,           \* what the delegate reported to the host (callbacks)
  \* ---- RtpPortAllocator
  reservedPorts,  \* the ports handed out and not given back
  \* ---- the SDP parser taken by itself
  sdp,            \* the body of an answer
  rtpDescription, \* what parseRtpDescription made of it
  \* ---- C4HCHomebridgePlatform
  accessories,              \* uuid -> accessory.context.definition
  cameraStreamingDelegates, \* the uuids that have a StreamingDelegate
  characteristicValueCache, \* cacheKey -> << >> or << cached value >>
  ignoreNextFullBrightness, \* the cacheKeys in the map
  wsConnection,             \* "null", or the state of the socket it holds
  clients,        \* the open sockets of clients that wsConnection does not
                  \* hold (any more): their handlers stay registered
  \* ---- the host of the platform
  writes          \* the Brightness=100 writes whose onSet waits at its timer

vars == << seq, callId, destroyed, sent, calls, sipConfig,
           pendingSessions, ongoingSessions, returnAudioTarget,
           prepare, resources, host, reservedPorts, sdp,
           rtpDescription,
           accessories, cameraStreamingDelegates, characteristicValueCache,
           ignoreNextFullBrightness, wsConnection, clients, writes >>

platformVars ==
  << accessories, cameraStreamingDelegates, characteristicValueCache,
     ignoreNextFullBrightness, wsConnection, clients, writes >>

cameraVars ==
  << seq, callId, destroyed, sent, calls, sipConfig,
     pendingSessions, ongoingSessions, returnAudioTarget,
     prepare, resources, host, reservedPorts, sdp, rtpDescription >>

----------------------------------------------------------------------------
(* Bounds and input sets *)

\* SpecSip: number of invite()/sendBye() calls made on the SipCall
MaxCalls == 2

\* the default of cameraStreamCount: concurrent sessions the host allows
MaxStreams == 2

Sessions == 1 .. MaxStreams

\* requests handed to the signaling stack in one run of Spec
MaxRequests == 4

\* SpecReuse: forced stops of one session id the timers of replaced session
\* objects may add
MaxForceStops == 2

\* SpecReuse: prepareStream calls the host makes with one session id
MaxPrepares == 2

\* SpecInbound: requests the remote party sends that get a response
MaxInbound == 2

\* one status of each class the response handler tells apart
Statuses == {180, 200, 401, 407, 486}

\* values of request.video.rtcp_interval, in seconds
RtcpIntervals == {2}

None == "none"
Absent == "absent"

\* configured URIs (sipOptions.to / sipOptions.from)
CfgTo == "sip:to"
CfgFrom == "sip:from"

----------------------------------------------------------------------------
(* The whole program state as one record *)

World ==
  [ seq |-> seq, callId |-> callId, destroyed |-> destroyed,
    sent |-> sent, calls |-> calls, sipConfig |-> sipConfig,
    pendingSessions |-> pendingSessions, ongoingSessions |-> ongoingSessions,
    returnAudioTarget |-> returnAudioTarget, prepare |-> prepare, resources |-> resources, host |-> host,
    reservedPorts |-> reservedPorts ]

Commit(w) ==
  /\ seq' = w.seq
  /\ callId' = w.callId
  /\ destroyed' = w.destroyed
  /\ sent' = w.sent
  /\ calls' = w.calls
  /\ sipConfig' = w.sipConfig
  /\ pendingSessions' = w.pendingSessions
  /\ ongoingSessions' = w.ongoingSessions
  /\ returnAudioTarget' = w.returnAudioTarget
  /\ prepare' = w.prepare
  /\ resources' = w.resources
  /\ host' = w.host
  /\ reservedPorts' = w.reservedPorts
  /\ UNCHANGED << sdp, rtpDescription, platformVars >>

----------------------------------------------------------------------------
(* SDP answer: the lines parseRtpDescription looks at.                     *)
(*   c     the c= line of the session section: "IN IP4" or absent          *)
(*   audio an m=audio section exists                                       *)
(*   port  <<p>>: the port of the m=audio line                             *)
(*   rtcp  <<r>>: the value of the a=rtcp: attribute of that section,      *)
(*         <<>> when the section has none                                  *)

GoodSdp == [c |-> "IN IP4", audio |-> TRUE, port |-> <<5004>>, rtcp |-> <<>>]
NoAudioSdp == [c |-> "IN IP4", audio |-> FALSE, port |-> <<>>, rtcp |-> <<>>]
NoCLineSdp == [c |-> Absent, audio |-> TRUE, port |-> <<5004>>, rtcp |-> <<>>]

Bodies == {GoodSdp, NoAudioSdp, NoCLineSdp}

\* the answers the parser is tried on by itself: the session section has a
\* c= line for IPv4, one for IPv6 or none; there is an m=audio section or
\* none; its m= line has a port or none; it has an a=rtcp: attribute or
\* none (rtcp <<0>>: an attribute whose value Number() turns into 0 or NaN)
SdpBodies ==
  [c : {"IN IP4", "IN IP6", Absent}, audio : BOOLEAN,
   port : {<<>>, <<0>>, <<5004>>, <<65534>>},
   rtcp : {<<>>, <<0>>, <<5005>>, <<6000>>}]

\* JavaScript's NaN, which is no port number
NaN == -1

\* sdp.parseMLine: the port is parseInt of the second word of the m= line,
\* NaN when there is none
parseMLine(body) == IF body.port = <<>> THEN NaN ELSE body.port[1]

\* getRtpDescription that takes a=rtcp: for the port whatever its value
getRtpDescription_noDefault(body) ==
  IF ~body.audio
  THEN [ok |-> FALSE, err |-> "Error: No m line found", rawLogged |-> TRUE]
  ELSE LET port == parseMLine(body)
       IN [ok |-> TRUE,
           port |-> port,
           rtcpPort |-> IF body.rtcp # <<>> THEN body.rtcp[1]
                        ELSE IF port = NaN THEN NaN ELSE port + 1]

\* getRtpDescription: the m=audio section's port and RTCP port, or a throw
\* after the raw sections went to the log.  The test for a port that is
\* undefined never holds: parseMLine gives a number or NaN
getRtpDescription(body) ==
  IF ~body.audio
  THEN [ok |-> FALSE, err |-> "Error: No m line found", rawLogged |-> TRUE]
  ELSE LET port == parseMLine(body)
       IN [ok |-> TRUE,
           port |-> port,
           rtcpPort |-> IF body.rtcp # <<>> /\ body.rtcp[1] # 0
                        THEN body.rtcp[1]
                        ELSE IF port = NaN THEN NaN ELSE port + 1]

\* parseRtpDescription: the address is read first, and cLine.match(...)[1]
\* is a TypeError when the session section has no c= line or one that is
\* not "c=IN IP4 ..."; nothing is logged then
parseRtpDescription(body) ==
  IF body.c # "IN IP4"
  THEN [ok |-> FALSE, err |-> "TypeError", rawLogged |-> FALSE]
  ELSE getRtpDescription(body)

----------------------------------------------------------------------------
(* SIP responses as the stack hands them to the callback of send().        *)
(* The stack matches a response to its transaction by cseq method, call-id *)
(* and branch, so those two are the request's.  The other headers are the  *)
(* remote party's: contact/to/from may be missing and the cseq number may  *)
(* be anything; 0 stands for the values JavaScript treats as false.        *)

RespHeaders ==
  { [contact |-> "sip:contact", to |-> "sip:to;tag", from |-> "sip:from;tag", seq |-> "echo"],
    [contact |-> Absent,        to |-> Absent,       from |-> Absent,         seq |-> "echo"],
    [contact |-> "sip:contact", to |-> "sip:to;tag", from |-> "sip:from;tag", seq |-> "zero"] }

\* headers and body as the remote party usually sends them
UsualHeaders ==
  [contact |-> "sip:contact", to |-> "sip:to;tag", from |-> "sip:from;tag", seq |-> "echo"]

\* the handler reads headers and body of a 2xx only
AllResponses ==
  [status : {st \in Statuses : st >= 200 /\ st < 300},
   headers : RespHeaders, content : Bodies]
  \cup [status : {st \in Statuses : st < 200 \/ st >= 300},
        headers : {UsualHeaders}, content : {GoodSdp}]

\* responses with the usual headers, and an SDP answer that parses or not
Responses == [status : Statuses \ {407, 486}, headers : {UsualHeaders},
              content : {GoodSdp, NoAudioSdp}]

\* the cseq number of a response to request rq
RespSeq(rq, resp) == IF resp.headers.seq = "echo" THEN rq.seq ELSE 0

----------------------------------------------------------------------------
(* SipCall *)

\* SipCall.seq starts at 20
InitialSeq == 20

SetAt(s, i, v) == [s EXCEPT ![i] = v]

\* sipStack.send(request, callback): the request is on the wire and its
\* callback waits for responses
send(w, rq) == [w EXCEPT !.sent = Append(@, rq)]

\* request() that reuses the previous cseq number on a retry
request_reuseCseq(w, method, isRetry, k) ==
  IF w.destroyed
  THEN [w |-> w, threw |-> TRUE]
  ELSE [w |-> send([w EXCEPT !.seq = IF isRetry THEN @ ELSE @ + 1],
                   [method |-> method, uri |-> CfgTo, to |-> CfgTo,
                    from |-> CfgFrom, callId |-> w.callId,
                    seq |-> IF isRetry THEN w.seq - 1 ELSE w.seq,
                    isRetry |-> isRetry, call |-> k,
                    open |-> TRUE]),
        threw |-> FALSE]

\* request() without the check of the destroyed flag
request_noDestroyedCheck(w, method, isRetry, k) ==
  [w |-> send([w EXCEPT !.seq = @ + 1],
              [method |-> method, uri |-> CfgTo, to |-> CfgTo,
               from |-> CfgFrom, callId |-> w.callId, seq |-> w.seq,
               isRetry |-> isRetry, call |-> k,
               open |-> TRUE]),
   threw |-> FALSE]

\* SipCall.request: throws once destroyed, else builds the headers from the
\* Call's current call-id and the next sequence number and sends.  (The
\* authorization header a retry carries is not part of the record: nothing
\* in SipCall reads it.)
request(w, method, isRetry, k) ==
  IF w.destroyed
  THEN [w |-> w, threw |-> TRUE]
  ELSE [w |-> send([w EXCEPT !.seq = @ + 1],
                   [method |-> method, uri |-> CfgTo, to |-> CfgTo,
                    from |-> CfgFrom, callId |-> w.callId, seq |-> w.seq,
                    isRetry |-> isRetry, call |-> k,
                    open |-> TRUE]),
        threw |-> FALSE]

\* an ACK that takes the Call's next sequence number
ack_advancingSeq(w, rq, resp) ==
  send([w EXCEPT !.seq = @ + 1],
       [method |-> "ACK",
        uri |-> IF resp.headers.contact # Absent
                THEN resp.headers.contact ELSE CfgTo,
        to |-> IF resp.headers.to # Absent THEN resp.headers.to ELSE CfgTo,
        from |-> IF resp.headers.from # Absent
                 THEN resp.headers.from ELSE CfgFrom,
        callId |-> rq.callId, seq |-> w.seq,
        isRetry |-> FALSE, call |-> 0,
        open |-> FALSE])

\* the ACK of SipCall.send: built from the response, sent without callback
ack(w, rq, resp) ==
  send(w, [method |-> "ACK",
           uri |-> IF resp.headers.contact # Absent
                   THEN resp.headers.contact ELSE CfgTo,
           to |-> IF resp.headers.to # Absent THEN resp.headers.to ELSE CfgTo,
           from |-> IF resp.headers.from # Absent
                    THEN resp.headers.from ELSE CfgFrom,
           callId |-> rq.callId, seq |-> RespSeq(rq, resp),
           isRetry |-> FALSE, call |-> 0,
           open |-> FALSE])

\* the callback that takes a 1xx for the answer
sendCallback_resolveProvisional(w, i, resp) ==
  LET rq == w.sent[i] IN
  IF resp.status >= 100 /\ resp.status < 300
  THEN [w |-> IF rq.method = "INVITE" /\ RespSeq(rq, resp) # 0
              THEN ack(w, rq, resp) ELSE w,
        settle |-> "resolve"]
  ELSE IF ~rq.isRetry /\ (resp.status = 401 \/ resp.status = 407)
  THEN LET r == request(w, rq.method, TRUE, rq.call)
       IN  [w |-> r.w, settle |-> IF r.threw THEN "reject-destroyed" ELSE "none"]
  ELSE [w |-> w, settle |-> "reject"]

\* the callback that retries after every failure status
sendCallback_retryAnyFailure(w, i, resp) ==
  LET rq == w.sent[i] IN
  IF resp.status >= 100 /\ resp.status < 200
  THEN [w |-> w, settle |-> "none"]
  ELSE IF resp.status >= 200 /\ resp.status < 300
  THEN [w |-> IF rq.method = "INVITE" /\ RespSeq(rq, resp) # 0
              THEN ack(w, rq, resp) ELSE w,
        settle |-> "resolve"]
  ELSE IF ~rq.isRetry
  THEN LET r == request(w, rq.method, TRUE, rq.call)
       IN  [w |-> r.w, settle |-> IF r.threw THEN "reject-destroyed" ELSE "none"]
  ELSE [w |-> w, settle |-> "reject"]

\* the callback without the isRetry test: every challenge is retried
sendCallback_retryAlways(w, i, resp) ==
  LET rq == w.sent[i] IN
  IF resp.status >= 100 /\ resp.status < 200
  THEN [w |-> w, settle |-> "none"]
  ELSE IF resp.status >= 200 /\ resp.status < 300
  THEN [w |-> IF rq.method = "INVITE" /\ RespSeq(rq, resp) # 0
              THEN ack(w, rq, resp) ELSE w,
        settle |-> "resolve"]
  ELSE IF resp.status = 401 \/ resp.status = 407
  THEN LET r == request(w, rq.method, TRUE, rq.call)
       IN  [w |-> r.w, settle |-> IF r.threw THEN "reject-destroyed" ELSE "none"]
  ELSE [w |-> w, settle |-> "reject"]

\* the callback SipCall.send gives the stack, run for response resp to the
\* request sent[i].  settle says what it does to the promise of send()
sendCallback(w, i, resp) ==
  LET rq == w.sent[i] IN
  IF resp.status >= 100 /\ resp.status < 200
  THEN [w |-> w, settle |-> "none"]
  ELSE IF resp.status >= 200 /\ resp.status < 300
  THEN [w |-> IF rq.method = "INVITE" /\ RespSeq(rq, resp) # 0
              THEN ack(w, rq, resp) ELSE w,
        settle |-> "resolve"]
  ELSE IF ~rq.isRetry /\ (resp.status = 401 \/ resp.status = 407)
  THEN LET r == request(w, rq.method, TRUE, rq.call)
       IN  [w |-> r.w, settle |-> IF r.threw THEN "reject-destroyed" ELSE "none"]
  ELSE [w |-> w, settle |-> "reject"]


\* a call record: the promises of one invite() or sendBye() call
\*   tx   the promise of request(): pending, resolved or rejected
\*   out  the promise of invite()/sendBye() itself
\*   drawn  what getRandomId() returned to invite() (0 for sendBye())
NewCall(op, by, s) ==
  [op |-> op, by |-> by, sess |-> s,
   tx |-> "pending", status |-> 0, out |-> "pending", err |-> None,
   logged |-> FALSE, drawn |-> 0]

\* sendBye without its try/catch: a failed request rejects sendBye too
afterRequest_noCatch(w, k, settle, resp) ==
  LET c == w.calls[k]
      parsed == parseRtpDescription(resp.content)
      c1 == IF settle = "resolve"
            THEN [c EXCEPT !.tx = "resolved", !.status = resp.status]
            ELSE [c EXCEPT !.tx = "rejected",
                           !.status = IF settle = "reject" THEN resp.status ELSE 0]
      c2 == IF settle # "resolve"
            THEN [c1 EXCEPT !.out = "rejected",
                            !.err = IF settle = "reject" THEN "status" ELSE "destroyed"]
            ELSE IF c.op = "sendBye" \/ parsed.ok
            THEN [c1 EXCEPT !.out = "resolved"]
            ELSE [c1 EXCEPT !.out = "rejected", !.err = "sdp"]
  IN [w EXCEPT !.calls = SetAt(@, k, c2)]

\* the part of invite()/sendBye() after `await this.request(...)`
\*   settle   resolve / reject / reject-destroyed (request threw)
\* invite: parseRtpDescription of the response, which may throw;
\* sendBye: a rejection is caught and logged
afterRequest(w, k, settle, resp) ==
  LET c == w.calls[k]
      parsed == parseRtpDescription(resp.content)
      c1 == IF settle = "resolve"
            THEN [c EXCEPT !.tx = "resolved", !.status = resp.status]
            ELSE [c EXCEPT !.tx = "rejected",
                           !.status = IF settle = "reject" THEN resp.status ELSE 0]
      c2 == IF c.op = "sendBye"
            THEN [c1 EXCEPT !.out = "resolved", !.logged = (settle # "resolve")]
            ELSE IF settle # "resolve"
            THEN [c1 EXCEPT !.out = "rejected",
                            !.err = IF settle = "reject" THEN "status" ELSE "destroyed"]
            ELSE IF parsed.ok
            THEN [c1 EXCEPT !.out = "resolved"]
            ELSE [c1 EXCEPT !.out = "rejected", !.err = "sdp"]
  IN [w EXCEPT !.calls = SetAt(@, k, c2)]

\* a response without meaning, for a request() that threw
NoResponse ==
  [status |-> 0, headers |-> UsualHeaders, content |-> GoodSdp]

\* getRandomId: Math.floor(Math.random() * 1e6) as a string; random is the
\* floored number.  The draw knows nothing of the draws before it
getRandomId(random) == random

\* the call-ids the SipCall has had: the constructor's and those the
\* invite() calls assigned, whether or not a request was built with them
UsedIds(w) ==
  {1, w.callId} \cup {w.calls[k].drawn :
                         k \in {j \in 1 .. Len(w.calls) :
                                  w.calls[j].op = "invite"}}

\* the draws of Math.random told apart: each of the ids used before, and
\* one id that stands for all those not used before
Randoms(w) ==
  UsedIds(w) \cup
    {1 + (CHOOSE m \in UsedIds(w) : \A n \in UsedIds(w) : n <= m)}

\* invite() that keeps the call-id of the call before
invite_keepCallId(w, by, s, random) ==
  LET k == Len(w.calls) + 1
      w1 == [w EXCEPT !.calls =
                        Append(@, [NewCall("invite", by, s) EXCEPT
                                     !.drawn = getRandomId(random)])]
      r == request(w1, "INVITE", FALSE, k)
  IN IF r.threw THEN afterRequest(r.w, k, "reject-destroyed", NoResponse)
     ELSE r.w

\* SipCall.invite up to its await: a call-id drawn anew, then
\* request('INVITE')
invite(w, by, s, random) ==
  LET k == Len(w.calls) + 1
      w1 == [w EXCEPT !.callId = getRandomId(random),
                      !.calls =
                        Append(@, [NewCall("invite", by, s) EXCEPT
                                     !.drawn = getRandomId(random)])]
      r == request(w1, "INVITE", FALSE, k)
  IN IF r.threw THEN afterRequest(r.w, k, "reject-destroyed", NoResponse)
     ELSE r.w

\* SipCall.sendBye up to its await: request('BYE') inside try/catch
sendBye(w, by, s) ==
  LET k == Len(w.calls) + 1
      w1 == [w EXCEPT !.calls = Append(@, NewCall("sendBye", by, s))]
      r == request(w1, "BYE", FALSE, k)
  IN IF r.threw THEN afterRequest(r.w, k, "reject-destroyed", NoResponse)
     ELSE r.w

\* destroy without the try/catch around sipStack.destroy()
destroy_unguarded(w, stackThrows) ==
  [w |-> [w EXCEPT !.destroyed = TRUE], threw |-> stackThrows]

\* SipCall.destroy: sets the flag, then sipStack.destroy() inside try/catch
\*   stackThrows  sipStack.destroy() throws (a stack that is already torn
\*                down, a socket that is already closed)
\*   threw        destroy() itself ends with an exception
destroy(w, stackThrows) ==
  [w |-> [w EXCEPT !.destroyed = TRUE], threw |-> FALSE]

\* sip.makeResponse(request, 200, 'Ok'): to, from, call-id and cseq are the
\* request's
makeResponse(rq, status) ==
  [method |-> "200", uri |-> None, to |-> rq.to, from |-> rq.from,
   callId |-> rq.callId, seq |-> rq.seq, isRetry |-> FALSE, call |-> 0,
   open |-> FALSE]

\* a handler of inbound requests that takes the BYE for the end of the call
onRequest_hangUp(w, rq) ==
  IF rq.method = "BYE"
  THEN [send(w, makeResponse(rq, 200)) EXCEPT !.destroyed = TRUE]
  ELSE w

\* the handler of inbound requests the constructor gives the stack: a BYE
\* is answered 200, sent without callback; any other request is dropped
onRequest(w, rq) ==
  IF rq.method = "BYE" THEN send(w, makeResponse(rq, 200)) ELSE w

----------------------------------------------------------------------------
(* RtpPortAllocator: a pool of UDP ports, of which reservePorts hands out   *)
(* free ones.  Which free ports it hands out decides nothing the delegate  *)
(* does, so it is taken to hand out the lowest, in ascending order         *)

\* the size of the pool
PoolSize == 16

Pool == 5000 .. 5000 + PoolSize - 1

FreePorts(w) == Pool \ w.reservedPorts

\* the n lowest ports of S, ascending
RECURSIVE Lowest(_, _)
Lowest(S, n) ==
  IF n = 0 \/ S = {} THEN << >>
  ELSE LET p == CHOOSE x \in S : \A y \in S : x <= y
       IN  <<p>> \o Lowest(S \ {p}, n - 1)

Range(q) == {q[i] : i \in 1 .. Len(q)}

\* an allocator that finds free port numbers and keeps no record of them
reservePorts_noRecord(w, count) ==
  IF Cardinality(FreePorts(w)) < count
  THEN [ok |-> FALSE, ports |-> << >>, w |-> w]
  ELSE [ok |-> TRUE, ports |-> Lowest(FreePorts(w), count), w |-> w]

\* reservePorts(family, count): count free ports, which are free no longer;
\* it fails when the pool has fewer
reservePorts(w, count) ==
  IF Cardinality(FreePorts(w)) < count
  THEN [ok |-> FALSE, ports |-> << >>, w |-> w]
  ELSE LET ports == Lowest(FreePorts(w), count)
       IN  [ok |-> TRUE, ports |-> ports,
            w |-> [w EXCEPT !.reservedPorts = @ \cup Range(ports)]]

----------------------------------------------------------------------------
(* StreamingDelegate *)

\* Map.set / Map.delete on a function whose domain is the set of keys
MapSet(m, key, v) == [x \in DOMAIN m \cup {key} |-> IF x = key THEN v ELSE m[x]]
MapDelete(m, key) == [x \in DOMAIN m \ {key} |-> m[x]]

\* what exists outside the two maps for a session id: the liveness socket,
\* the armed inactivity timers and their delay in ms, the two FFmpeg
\* processes, the RTP relay.  socket, the processes and the relay are those
\* of the session object startStream made last for the id
\*   timers    the armed timers whose callback names the id
\*   replaced  the session objects startStream overwrote in ongoingSessions:
\*             nothing closes their sockets, whose handlers keep the object
\*   stale     the armed timers whose handle is in a replaced object; the
\*             timer of the object in the map is armed iff timers > stale
\*   aimedAt   <<t>>: the session whose SIP ports the return process sends to
\*   ports     the ports reservePorts gave the session's prepareStream
NoResources ==
  [socket |-> "none", timers |-> 0, replaced |-> 0, stale |-> 0,
   delay |-> 0, mainProcess |-> "none",
   returnProcess |-> "none", aimedAt |-> <<>>, relay |-> "none",
   ports |-> <<>>]

\* what the host has seen of a session
\*   reconfigured  a RECONFIGURE request was answered with callback()
NoReports ==
  [prepareCallbacks |-> 0, startError |-> FALSE, forceStops |-> 0,
   reconfigured |-> FALSE]

\* prepareStream after the invite (or without one): store the session as
\* pending and answer the host.  ok: invite() resolved, so the remote RTP
\* description is known and the relay (RtpHelper) was created
finishPrepare(w, s, ok) ==
  [w EXCEPT
     !.pendingSessions =
        MapSet(@, s, [sipRtpOptions |-> w.sipConfig,
                      sipRemoteRtpDescription |-> ok, rtpHelper |-> ok]),
     !.resources[s].relay = IF ok THEN "open" ELSE @,
     !.host[s].prepareCallbacks = @ + 1,
     !.prepare[s] = "done"]

\* prepareStream whose catch block sends no BYE
afterInvite_noBye(w, k) ==
  LET c == w.calls[k] IN
  finishPrepare(w, c.sess, c.out = "resolved")

\* prepareStream from the point where invite() settled (call k): the catch
\* block sends a BYE and logs
afterInvite(w, k) ==
  LET c == w.calls[k] IN
  IF c.out = "resolved"
  THEN finishPrepare(w, c.sess, TRUE)
  ELSE finishPrepare(sendBye(w, "prepare", c.sess), c.sess, FALSE)

\* the await of reservePorts throws: the promise prepareStream returned is
\* rejected and nothing after the await runs
rejectPrepare(w, s) == [w EXCEPT !.prepare[s] = "rejected"]

\* the count prepareStream asks reservePorts for
PortsNeeded(w) == IF w.sipConfig THEN 8 ELSE 4

\* prepareStream from the point where reservePorts settles; random is the
\* draw of the invite() it makes
prepareStream(w, s, random) ==
  LET r == reservePorts(w, PortsNeeded(w))
      w0 == [r.w EXCEPT !.resources[s].ports = r.ports]
  IN IF ~r.ok THEN rejectPrepare(w, s)
     ELSE IF w.sipConfig
     THEN LET w1 == invite(w0, "prepare", s, random)
              k == Len(w1.calls)
          IN  IF w1.calls[k].out = "pending"
              THEN [w1 EXCEPT !.prepare[s] = "inviting"]
              ELSE afterInvite(w1, k)
     ELSE finishPrepare(w0, s, FALSE)

\* startStream without the test for the pending session
startStream_unchecked(w, s, interval) ==
  [w EXCEPT
     !.resources[s].socket = "bound",
     !.resources[s].delay = interval * 5 * 1000,
     !.resources[s].mainProcess = "running",
     !.ongoingSessions =
         MapSet(@, s, [timeout |-> FALSE, returnProcess |-> FALSE,
                       rtpHelper |-> FALSE]),
     !.pendingSessions = MapDelete(@, s)]

\* startStream; interval is request.video.rtcp_interval, which the socket's
\* 'message' handler keeps.  The session object is new, with a socket and
\* handlers of its own; Map.set puts it in the place of the object the id
\* has in ongoingSessions, if any, which is left as it is
startStream(w, s, interval) ==
  IF s \in DOMAIN w.pendingSessions
  THEN LET info == w.pendingSessions[s]
           target == IF w.sipConfig /\ info.sipRemoteRtpDescription
                        /\ info.sipRtpOptions
                     THEN <<s>> ELSE w.returnAudioTarget
           replaces == s \in DOMAIN w.ongoingSessions
       IN [w EXCEPT
             !.returnAudioTarget = target,
             !.resources[s].replaced = IF replaces THEN @ + 1 ELSE @,
             !.resources[s].stale =
                 IF replaces THEN w.resources[s].timers ELSE @,
             !.resources[s].socket = "bound",
             !.resources[s].delay = interval * 5 * 1000,
             !.resources[s].mainProcess = "running",
             !.resources[s].returnProcess =
                 IF target # <<>> THEN "running" ELSE @,
             !.resources[s].aimedAt = IF target # <<>> THEN target ELSE @,
             !.ongoingSessions =
                 MapSet(@, s, [timeout |-> FALSE,
                               returnProcess |-> (target # <<>>),
                               rtpHelper |-> info.rtpHelper]),
             !.pendingSessions = MapDelete(@, s)]
  ELSE [w EXCEPT !.host[s].startError = TRUE]

\* clearTimeout(session.timeout) for the session object in the map; r: the
\* resources of its id.  The timer the handle names is disarmed; a handle
\* whose timer has fired names no armed timer, and nothing is done
clearTimeout(r) ==
  IF r.timers > r.stale THEN [r EXCEPT !.timers = @ - 1] ELSE r

\* a 'message' handler that arms a timer and leaves the one before it armed
onMessage_noClear(w, s) ==
  [w EXCEPT
     !.resources[s].timers = @ + 1,
     !.ongoingSessions =
        IF s \in DOMAIN @ THEN [@ EXCEPT ![s].timeout = TRUE] ELSE @]

\* the 'message' handler of the liveness socket: clear the timer if one is
\* set, arm a new one of rtcp_interval * 5 * 1000 ms
onMessage(w, s) ==
  LET set == s \in DOMAIN w.ongoingSessions /\ w.ongoingSessions[s].timeout
  IN [w EXCEPT
        !.resources[s].timers =
           (IF set THEN clearTimeout(w.resources[s]).timers ELSE @) + 1,
        !.ongoingSessions =
           IF s \in DOMAIN @ THEN [@ EXCEPT ![s].timeout = TRUE] ELSE @]

\* the 'message' handler of the socket of a replaced session object; armed:
\* the timer of that object is armed.  It clears and arms the timer of its
\* own object, and the object in the map is not touched
onMessageReplaced(w, s, armed) ==
  [w EXCEPT
     !.resources[s].timers = (IF armed THEN @ - 1 ELSE @) + 1,
     !.resources[s].stale = (IF armed THEN @ - 1 ELSE @) + 1]

\* the calls stopStream makes on the resources of a session, and the sets
\* of them that throw in one run of stopStream.  socket.close() and the two
\* stop() calls sit in a try/catch of their own; rtpHelper.close() does not
TeardownCalls ==
  {"socket.close", "mainProcess.stop", "returnProcess.stop", "rtpHelper.close"}
Failures == SUBSET TeardownCalls
NoFailure == {}

\* the mark stop() leaves on a process: it may throw, and the process may
\* have exited by itself before
stop(p, threw) ==
  IF threw THEN "stop-threw"
  ELSE IF p = "exited" THEN "stopped-after-exit" ELSE "stopped"

\* the marks of a socket or relay on which close() was called, and of a
\* process on which stop() was called
CloseAttempted == {"closed", "close-threw"}
StopAttempted == {"stopped", "stop-threw", "stopped-after-exit"}

\* stopStream throws: the session has a relay and its close() throws
stopStreamThrows(w, s, fails) ==
  /\ s \in DOMAIN w.ongoingSessions
  /\ w.ongoingSessions[s].rtpHelper
  /\ "rtpHelper.close" \in fails

\* stopStream; fails: the calls that throw in this run.  A call that was
\* made leaves its mark on the resource whether it threw or not.
\* sendBye() is an async function and cannot throw where it is called.
\* When rtpHelper.close() throws, stopStream ends there: the session stays
\* in ongoingSessions
stopStream(w, s, fails) ==
  IF s \in DOMAIN w.ongoingSessions
  THEN LET session == w.ongoingSessions[s]
           w1 == [w EXCEPT
                    !.resources[s].timers =
                        IF session.timeout
                        THEN clearTimeout(w.resources[s]).timers ELSE @,
                    !.resources[s].socket =
                        IF "socket.close" \in fails
                        THEN "close-threw" ELSE "closed",
                    !.resources[s].mainProcess =
                        stop(@, "mainProcess.stop" \in fails),
                    !.resources[s].returnProcess =
                        IF ~session.returnProcess THEN @
                        ELSE stop(@, "returnProcess.stop" \in fails)]
           w2 == IF w.sipConfig THEN sendBye(w1, "stop", s) ELSE w1
       IN IF stopStreamThrows(w, s, fails)
          THEN [w2 EXCEPT !.resources[s].relay = "close-threw"]
          ELSE [w2 EXCEPT
                  !.resources[s].relay =
                      IF session.rtpHelper THEN "closed" ELSE @,
                  !.ongoingSessions = MapDelete(@, s)]
  ELSE w

\* handleStreamRequest(RECONFIGURE) without its break: it goes on into the
\* STOP case
reconfigure_fallThrough(w, s) ==
  stopStream([w EXCEPT !.host[s].reconfigured = TRUE], s, NoFailure)

\* handleStreamRequest(RECONFIGURE): a debug line, then callback()
reconfigure(w, s) == [w EXCEPT !.host[s].reconfigured = TRUE]

\* controller.forceStopStreamingSession: the host is told
forceStopStreamingSession(w, s) == [w EXCEPT !.host[s].forceStops = @ + 1]

\* the inactivity timer's callback
onTimeout(w, s, fails) ==
  stopStream(forceStopStreamingSession(w, s), s, fails)

\* the exit handler of a transcoding process that ended by itself with an
\* error: the session is torn down and the host is told
\*   which  "mainProcess" or "returnProcess"
onProcessExit(w, s, which, fails) ==
  LET w0 == [w EXCEPT !.resources[s][which] = "exited"]
  IN IF stopStreamThrows(w0, s, fails)
     THEN stopStream(w0, s, fails)
     ELSE forceStopStreamingSession(stopStream(w0, s, fails), s)

\* the SHUTDOWN handler: `for (const session in this.ongoingSessions)` walks
\* the enumerable properties of the Map object, of which there are none, so
\* no session is stopped; then the SIP call is destroyed
onShutdown(w, stackThrows) ==
  IF w.sipConfig THEN destroy(w, stackThrows).w ELSE w

----------------------------------------------------------------------------
(* C4HCHomebridgePlatform (src/unnamed/part_001)                           *)
(*                                                                         *)
(* The accessories of the model carry at most one service, a Lightbulb     *)
(* with the characteristics On and Brightness.  A characteristic value is  *)
(* a number (On: 0 or 1).  Operations are functions on a record p of the   *)
(* platform's state.                                                       *)

\* accessories the client defines
Uuids == {1}

Characteristics == {"On", "Brightness"}

\* cacheKey(accessory, service, characteristic): one key per characteristic
\* of the one service
cacheKey(uuid, characteristic) == << uuid, characteristic >>

Keys == Uuids \X Characteristics

\* HAPStatus numbers; isHAPStatus accepts the twelve error codes
INSUFFICIENT_PRIVILEGES == -70401
SERVICE_COMMUNICATION_FAILURE == -70402
NOT_ALLOWED_IN_CURRENT_STATE == -70412

isHAPStatus(status) ==
  status \in NOT_ALLOWED_IN_CURRENT_STATE .. INSUFFICIENT_PRIVILEGES

\* hapStatusError || value: what addAccessory and setValue put in the cache
\*   error TRUE: a HapStatusError with that status
Cached(value) == [error |-> isHAPStatus(value), v |-> value]

\* what onSet puts in the cache: the value as it came
Plain(value) == [error |-> FALSE, v |-> value]

\* JavaScript truthiness of map.get(key): an entry that holds a number other
\* than 0, or a HapStatusError object
Truthy(entry) == entry # << >> /\ (entry[1].error \/ entry[1].v # 0)

\* the definitions a client sends with add-request
\*   services  "none": services is {};  "unknown": a service name that
\*             this.Service lacks;  "unknownCharacteristic": a Lightbulb
\*             whose characteristics are On and then a name that
\*             this.Characteristic lacks;  "Lightbulb": On and Brightness
\*   on        << >>: On is 'default';  << v >>: On has the value v.  A
\*             definition without a Lightbulb has no On
\*   defaultOnBrightness  0: options.defaultOnBrightness is not set
Payloads ==
  [ uuid : Uuids,
    services : {"none", "unknown"},
    camera : BOOLEAN,
    defaultOnBrightness : {0},
    on : {<< >>} ]
  \cup
  [ uuid : Uuids,
    services : {"unknownCharacteristic", "Lightbulb"},
    camera : BOOLEAN,
    defaultOnBrightness : {0, 50, 100},
    on : {<< >>, << 1 >>, << SERVICE_COMMUNICATION_FAILURE >>} ]

Platform ==
  [ accessories |-> accessories,
    cameraStreamingDelegates |-> cameraStreamingDelegates,
    characteristicValueCache |-> characteristicValueCache,
    ignoreNextFullBrightness |-> ignoreNextFullBrightness,
    wsConnection |-> wsConnection ]

\* C4HCHomebridgePlatform.send(message) hands the message to the socket
\* when wsConnection is set (OPEN is a constant of the socket class, not
\* its state); it changes nothing in the platform
Handed(p) == p.wsConnection # "null"

\* addCharacteristicsToService for the characteristics of the definition, in
\* their order: a value given for On is cached before a later name turns out
\* unknown
addServicesToAccessory(p, payload) ==
  LET withOn ==
        IF payload.on # << >>
          THEN [p EXCEPT !.characteristicValueCache[
                             cacheKey(payload.uuid, "On")] =
                               << Cached(payload.on[1]) >>]
          ELSE p
  IN  CASE payload.services = "none" -> [error |-> FALSE, p |-> p]
        [] payload.services = "unknownCharacteristic" ->
             [error |-> TRUE, p |-> withOn]
        [] OTHER -> [error |-> FALSE, p |-> withOn]

\* addAccessory without the removal of the accessory whose services failed
addAccessory_keepOnError(p, payload) ==
  LET uuid == payload.uuid
      r == addServicesToAccessory(p, payload)
      delegates == (r.p.cameraStreamingDelegates \ {uuid})
                      \cup (IF payload.camera THEN {uuid} ELSE {})
  IN  IF payload.services = "none" /\ ~payload.camera
        THEN [ack |-> FALSE, p |-> p]
      ELSE IF payload.services = "unknown"
        THEN [ack |-> FALSE, p |-> p]
      ELSE IF r.error
        THEN [ack |-> FALSE, p |-> r.p]
      ELSE [ack |-> TRUE,
            p |-> [r.p EXCEPT
                     !.cameraStreamingDelegates = delegates,
                     !.accessories = MapSet(@, uuid, payload)]]

\* addAccessory(payload): the ack of the response and the platform after
addAccessory(p, payload) ==
  LET uuid == payload.uuid
      r == addServicesToAccessory(p, payload)
      delegates == (r.p.cameraStreamingDelegates \ {uuid})
                      \cup (IF payload.camera THEN {uuid} ELSE {})
  IN  IF payload.services = "none" /\ ~payload.camera
        THEN [ack |-> FALSE, p |-> p]
      ELSE IF payload.services = "unknown"
        THEN [ack |-> FALSE, p |-> p]
      ELSE IF r.error
        THEN [ack |-> FALSE,
              p |-> [r.p EXCEPT !.accessories = MapDelete(@, uuid)]]
      ELSE [ack |-> TRUE,
            p |-> [r.p EXCEPT
                     !.cameraStreamingDelegates = delegates,
                     !.accessories = MapSet(@, uuid, payload)]]

\* removeAccessory(payload)
removeAccessory(p, uuid) ==
  IF uuid \in DOMAIN p.accessories
    THEN [ack |-> TRUE, p |-> [p EXCEPT !.accessories = MapDelete(@, uuid)]]
    ELSE [ack |-> FALSE, p |-> p]

\* setValue(payload) for the Lightbulb service; value << >> is null
setValue(p, uuid, characteristic, value) ==
  IF uuid \notin DOMAIN p.accessories
    THEN [ack |-> FALSE, p |-> p]
  ELSE IF p.accessories[uuid].services # "Lightbulb"
    THEN [ack |-> FALSE, p |-> p]
  ELSE IF value = << >>
    THEN [ack |-> FALSE, p |-> p]
  ELSE [ack |-> TRUE,
        p |-> [p EXCEPT !.characteristicValueCache[
                           cacheKey(uuid, characteristic)] =
                             << Cached(value[1]) >>]]

\* onGet that hands back whatever the cache holds
onGet_returnsErrors(p, uuid, characteristic) ==
  LET cachedValue == p.characteristicValueCache[cacheKey(uuid, characteristic)]
  IN  IF cachedValue = << >>
        THEN [threw |-> TRUE, v |-> NOT_ALLOWED_IN_CURRENT_STATE]
        ELSE [threw |-> FALSE, v |-> cachedValue[1].v]

\* onGet(accessory, service, characteristic): the value returned, or the
\* status of the HapStatusError thrown
onGet(p, uuid, characteristic) ==
  LET cachedValue == p.characteristicValueCache[cacheKey(uuid, characteristic)]
  IN  IF cachedValue = << >>
        THEN [threw |-> TRUE, v |-> NOT_ALLOWED_IN_CURRENT_STATE]
        ELSE [threw |-> cachedValue[1].error, v |-> cachedValue[1].v]

\* the cache.set that ends onSet, before its send
cacheAndSend(p, uuid, characteristic, value) ==
  [p EXCEPT !.characteristicValueCache[cacheKey(uuid, characteristic)] =
               << Plain(value) >>]

\* the condition of onSet under which an On write sets the brightness to
\* the default of the definition
Substitutes(p, uuid, characteristic, value) ==
  /\ characteristic = "On"
  /\ ~Truthy(p.characteristicValueCache[cacheKey(uuid, characteristic)])
  /\ value # 0
  /\ p.accessories[uuid].defaultOnBrightness # 0

\* brightness.setValue(default) of onSet runs the set handler of Brightness,
\* which is onSet again: with a default of 100 that call waits its 100 ms
Nests(p, uuid, characteristic, value) ==
  /\ Substitutes(p, uuid, characteristic, value)
  /\ p.accessories[uuid].defaultOnBrightness = 100

\* onSet from its second if on.  The onSet that brightness.setValue(default)
\* runs comes to its end before the On is cached, unless it waits
onSetBody(p, uuid, characteristic, value) ==
  LET brightness == cacheKey(uuid, "Brightness")
      flagged == [p EXCEPT !.ignoreNextFullBrightness = @ \cup {brightness}]
      p1 == IF ~Substitutes(p, uuid, characteristic, value) THEN p
            ELSE IF Nests(p, uuid, characteristic, value) THEN flagged
            ELSE cacheAndSend(flagged, uuid, "Brightness",
                              p.accessories[uuid].defaultOnBrightness)
  IN  cacheAndSend(p1, uuid, characteristic, value)

\* onSet of a Brightness=100 write once its 100 ms have passed
onSetAfterWait(p, uuid) ==
  LET key == cacheKey(uuid, "Brightness")
  IN  IF key \in p.ignoreNextFullBrightness
        THEN [dropped |-> TRUE,
              p |-> [p EXCEPT !.ignoreNextFullBrightness = @ \ {key}]]
        ELSE [dropped |-> FALSE, p |-> onSetBody(p, uuid, "Brightness", 100)]

InitPlatform ==
  /\ accessories = [u \in {} |-> 0]
  /\ cameraStreamingDelegates = {}
  /\ characteristicValueCache = [k \in Keys |-> << >>]
  /\ ignoreNextFullBrightness = {}
  /\ wsConnection = "null"
  /\ clients = 0
  /\ writes = << >>

----------------------------------------------------------------------------
(* Initial state: the objects as their constructors leave them *)

InitObjects ==
  /\ seq = InitialSeq
  /\ callId = 1
  /\ destroyed = FALSE
  /\ sent = << >>
  /\ calls = << >>
  /\ pendingSessions = [s \in {} |-> 0]
  /\ ongoingSessions = [s \in {} |-> 0]
  /\ returnAudioTarget = << >>
  /\ prepare = [s \in Sessions |-> "idle"]
  /\ resources = [s \in Sessions |-> NoResources]
  /\ host = [s \in Sessions |-> NoReports]
  /\ reservedPorts = {}
  /\ InitPlatform

\* the parser is not looked at by itself
InitCommon ==
  /\ InitObjects
  /\ sdp = GoodSdp
  /\ rtpDescription = << >>

Init == InitCommon /\ sipConfig \in BOOLEAN

InitSip == InitCommon /\ sipConfig = TRUE

----------------------------------------------------------------------------
(* Actions shared by both specifications *)

\* commit w unless the run would go beyond its bound on requests
Bounded(w) == Len(w.sent) <= MaxRequests /\ Commit(w)

\* the stack delivers response resp for the open request sent[i]; a final
\* response ends the transaction.  The promise continuations run in the same
\* macrotask: invite()/sendBye() and, for an invite made by prepareStream,
\* the rest of prepareStream
onResponse(w, i, resp) ==
  LET final == resp.status >= 200
      k == w.sent[i].call
      w0 == [w EXCEPT !.sent[i].open = ~final]
      r == sendCallback(w0, i, resp)
      w1 == IF r.settle = "none" THEN r.w
            ELSE afterRequest(r.w, k, r.settle, resp)
  IN IF r.settle # "none" /\ w1.calls[k].op = "invite"
        /\ w1.calls[k].by = "prepare"
     THEN afterInvite(w1, k) ELSE w1

----------------------------------------------------------------------------
(* SpecSip: a SipCall driven directly by any sequence of its public methods *)

ClientInvite ==
  /\ Len(calls) < MaxCalls
  /\ \E random \in Randoms(World) :
        Commit(invite(World, "client", 0, random))

ClientSendBye ==
  /\ Len(calls) < MaxCalls
  /\ Commit(sendBye(World, "client", 0))

ClientDestroy ==
  /\ Len(calls) <= MaxCalls
  /\ \E stackThrows \in BOOLEAN : Commit(destroy(World, stackThrows).w)

StackResponse(i, resp) ==
  /\ sent[i].open
  /\ Commit(onResponse(World, i, resp))

NextSip ==
  \/ ClientInvite
  \/ ClientSendBye
  \/ ClientDestroy
  \/ \E i \in 1 .. Len(sent), resp \in AllResponses : StackResponse(i, resp)

SpecSip == InitSip /\ [][NextSip]_vars

----------------------------------------------------------------------------
(* Spec: the StreamingDelegate with its SipCall, driven by the host, the    *)
(* network and the timers                                                  *)

\* the host calls prepareStream; it awaits RtpPortAllocator.reservePorts
PrepareStreamCall(s) ==
  /\ prepare[s] = "idle"
  /\ prepare' = [prepare EXCEPT ![s] = "reserving"]
  /\ UNCHANGED << seq, callId, destroyed, sent, calls, sipConfig,
                  pendingSessions, ongoingSessions, returnAudioTarget,
                  resources, host, reservedPorts, sdp,
                  rtpDescription, platformVars >>

\* the ports are reserved and prepareStream goes on
PortsReserved(s) ==
  /\ prepare[s] = "reserving"
  /\ \E random \in Randoms(World) :
        Bounded(prepareStream(World, s, random))

\* handleStreamRequest(START), once the host has the prepare response
StartStream(s, interval) ==
  /\ prepare[s] = "done"
  /\ Bounded(startStream(World, s, interval))

\* handleStreamRequest(STOP)
StopRequest(s, fails) ==
  LET w == stopStream(World, s, fails) IN
  /\ Len(w.sent) <= MaxRequests
  /\ Commit(w)

\* a datagram arrives on the liveness socket
SocketMessage(s) ==
  /\ resources[s].socket = "bound"
  /\ Bounded(onMessage(World, s))

\* the liveness socket reports an error
SocketError(s, fails) ==
  /\ resources[s].socket = "bound"
  /\ Bounded(stopStream(World, s, fails))

\* the armed inactivity timer of the session object in the map expires: it
\* is no longer armed and its callback runs
TimerExpire(s, fails) ==
  /\ resources[s].timers > resources[s].stale
  /\ Bounded(onTimeout([World EXCEPT !.resources[s].timers = @ - 1], s, fails))

\* a transcoding process exits with an error
ProcessExit(s, which, fails) ==
  /\ resources[s][which] = "running"
  /\ Bounded(onProcessExit(World, s, which, fails))

\* the stack delivers a response to an open request
SipResponse(i, resp) ==
  /\ sent[i].open
  /\ Bounded(onResponse(World, i, resp))

\* the host emits SHUTDOWN
Shutdown ==
  /\ Len(sent) <= MaxRequests
  /\ \E stackThrows \in BOOLEAN : Commit(onShutdown(World, stackThrows))

Next ==
  \/ \E s \in Sessions : PrepareStreamCall(s)
  \/ \E s \in Sessions : PortsReserved(s)
  \/ \E i \in 1 .. Len(sent), resp \in Responses : SipResponse(i, resp)
  \/ \E s \in Sessions, interval \in RtcpIntervals : StartStream(s, interval)
  \/ \E s \in Sessions : StopRequest(s, NoFailure)
  \/ \E s \in Sessions : SocketMessage(s)
  \/ \E s \in Sessions : SocketError(s, NoFailure)
  \/ \E s \in Sessions : TimerExpire(s, NoFailure)
  \/ Shutdown

Spec == Init /\ [][Next]_vars

----------------------------------------------------------------------------
(* SpecStop: the delegate when the calls of stopStream may throw            *)
(* and a transcoding process may exit by itself.                           *)
(* The remote party answers every request at once with a 200 and a good    *)
(* SDP answer, so that the runs are about the teardown                     *)

Answers == [status : {200}, headers : {UsualHeaders}, content : {GoodSdp}]

NextStop ==
  \/ \E s \in Sessions : PrepareStreamCall(s)
  \/ \E s \in Sessions : PortsReserved(s)
  \/ \E i \in 1 .. Len(sent), resp \in Answers : SipResponse(i, resp)
  \/ \E s \in Sessions, interval \in RtcpIntervals : StartStream(s, interval)
  \/ \E s \in Sessions, fails \in Failures : StopRequest(s, fails)
  \/ \E s \in Sessions : SocketMessage(s)
  \/ \E s \in Sessions, fails \in Failures : SocketError(s, fails)
  \/ \E s \in Sessions, fails \in Failures : TimerExpire(s, fails)
  \/ \E s \in Sessions, which \in {"mainProcess", "returnProcess"},
        fails \in Failures : ProcessExit(s, which, fails)

SpecStop == Init /\ [][NextStop]_vars

----------------------------------------------------------------------------
(* SpecInbound: a SipCall whose remote party sends requests of its own      *)
(* while the client uses the call; the remote party answers the client's   *)
(* requests with 200                                                       *)

\* the requests the remote party may send: for the call in progress or for
\* a call the SipCall does not know
InboundRequests ==
  [method : {"BYE", "INVITE", "OPTIONS"}, to : {CfgFrom}, from : {CfgTo},
   callId : {0, callId}, seq : {1}]

\* the responses the SipCall has sent
Replies == {i \in 1 .. Len(sent) : sent[i].method = "200"}

\* the stack hands the handler an inbound request
InboundRequest(rq) ==
  /\ Cardinality(Replies) < MaxInbound
  /\ Commit(onRequest(World, rq))

NextInbound ==
  \/ ClientInvite
  \/ ClientSendBye
  \/ ClientDestroy
  \/ \E i \in 1 .. Len(sent), resp \in Answers : StackResponse(i, resp)
  \/ \E rq \in InboundRequests : InboundRequest(rq)

SpecInbound == InitSip /\ [][NextInbound]_vars

----------------------------------------------------------------------------
(* SpecReuse: a camera without SIP whose host may use a session id again:   *)
(* prepareStream takes the id from the request and tests nothing           *)

\* the host calls prepareStream with an id it may have used before
PrepareStreamAgain(s) ==
  /\ prepare[s] \in {"idle", "done"}
  /\ host[s].prepareCallbacks < MaxPrepares
  /\ prepare' = [prepare EXCEPT ![s] = "reserving"]
  /\ UNCHANGED << seq, callId, destroyed, sent, calls, sipConfig,
                  pendingSessions, ongoingSessions, returnAudioTarget,
                  resources, host, reservedPorts, sdp,
                  rtpDescription, platformVars >>

\* a datagram arrives on the socket of a replaced session object, whose
\* timer is armed or not
ReplacedSocketMessage(s, armed) ==
  /\ resources[s].replaced > 0
  /\ IF armed THEN resources[s].stale > 0
     ELSE resources[s].replaced > resources[s].stale
  /\ Bounded(onMessageReplaced(World, s, armed))

\* the armed timer of a replaced session object expires: its callback names
\* the id, and stopStream takes the object the id has in the map
ReplacedTimerExpire(s) ==
  /\ resources[s].stale > 0
  /\ host[s].forceStops < MaxForceStops
  /\ Bounded(onTimeout([World EXCEPT !.resources[s].timers = @ - 1,
                                     !.resources[s].stale = @ - 1],
                       s, NoFailure))

InitReuse == InitCommon /\ sipConfig = FALSE

NextReuse ==
  \/ \E s \in Sessions : PrepareStreamAgain(s)
  \/ \E s \in Sessions : PortsReserved(s)
  \/ \E s \in Sessions, interval \in RtcpIntervals : StartStream(s, interval)
  \/ \E s \in Sessions : StopRequest(s, NoFailure)
  \/ \E s \in Sessions : SocketMessage(s)
  \/ \E s \in Sessions : TimerExpire(s, NoFailure)
  \/ \E s \in Sessions, armed \in BOOLEAN : ReplacedSocketMessage(s, armed)
  \/ \E s \in Sessions : ReplacedTimerExpire(s)

SpecReuse == InitReuse /\ [][NextReuse]_vars

----------------------------------------------------------------------------
(* SpecPorts: the delegate and the port allocator.  reservePorts may fail   *)
(* while the pool still has ports (other programs hold them), and the host  *)
(* sets up a new session under the id of one that is over                  *)

\* the session under id s is over: its setup failed, or it is in no map
Over(s) ==
  \/ prepare[s] = "rejected"
  \/ /\ prepare[s] = "done"
     /\ s \notin DOMAIN pendingSessions
     /\ s \notin DOMAIN ongoingSessions

\* the host calls prepareStream for a new session; the socket, processes
\* and relay of a session before it under the same id are gone
PrepareNextSession(s) ==
  /\ prepare[s] = "idle" \/ Over(s)
  /\ host[s].prepareCallbacks < MaxPrepares
  /\ prepare' = [prepare EXCEPT ![s] = "reserving"]
  /\ resources' = [resources EXCEPT ![s] = NoResources]
  /\ UNCHANGED << seq, callId, destroyed, sent, calls, sipConfig,
                  pendingSessions, ongoingSessions, returnAudioTarget,
                  host, reservedPorts, sdp, rtpDescription,
                  platformVars >>

\* handleStreamRequest(RECONFIGURE) for a session the host has set up
Reconfigure(s) ==
  /\ prepare[s] = "done"
  /\ Bounded(reconfigure(World, s))

\* reservePorts rejects
ReservationFails(s) ==
  /\ prepare[s] = "reserving"
  /\ Commit(rejectPrepare(World, s))

NextPorts ==
  \/ \E s \in Sessions : PrepareNextSession(s)
  \/ \E s \in Sessions : PortsReserved(s)
  \/ \E s \in Sessions : ReservationFails(s)
  \/ \E s \in Sessions : Reconfigure(s)
  \/ \E i \in 1 .. Len(sent), resp \in Answers : SipResponse(i, resp)
  \/ \E s \in Sessions, interval \in RtcpIntervals : StartStream(s, interval)
  \/ \E s \in Sessions : StopRequest(s, NoFailure)
  \/ \E s \in Sessions : SocketMessage(s)
  \/ \E s \in Sessions : TimerExpire(s, NoFailure)

SpecPorts == Init /\ [][NextPorts]_vars

----------------------------------------------------------------------------
(* SpecSdp: parseRtpDescription by itself, on any of the answers SdpBodies *)

InitSdp ==
  /\ InitObjects
  /\ sipConfig = TRUE
  /\ sdp \in SdpBodies
  /\ rtpDescription = << >>

\* the answer is parsed; rtpDescription holds what came of it
ParseAnswer ==
  /\ rtpDescription = << >>
  /\ rtpDescription' = << parseRtpDescription(sdp) >>
  /\ UNCHANGED << seq, callId, destroyed, sent, calls, sipConfig,
                  pendingSessions, ongoingSessions, returnAudioTarget,
                  prepare, resources, host, reservedPorts, sdp,
                  platformVars >>

NextSdp == ParseAnswer

SpecSdp == InitSdp /\ [][NextSdp]_vars

----------------------------------------------------------------------------
(* SpecPrepare: the prepareStream calls of the host, one per session, up   *)
(* to their end: reservePorts settles either way, and the signaling stack  *)
(* delivers the responses to the requests of the call                      *)

NextPrepare ==
  \/ \E s \in Sessions : PrepareStreamCall(s)
  \/ \E s \in Sessions : PortsReserved(s)
  \/ \E s \in Sessions : ReservationFails(s)
  \/ \E i \in 1 .. Len(sent), resp \in Responses : StackResponse(i, resp)

SpecPrepare == Init /\ [][NextPrepare]_vars

----------------------------------------------------------------------------------------------------------------------------------------------
(* SpecPlatform: the platform with its client on the WebSocket and the     *)
(* host reading and writing the characteristics                            *)

\* Brightness=100 writes made in one run, by the host or by onSet itself
MaxWrites == 2

\* clients connected to the WebSocket server at one time
MaxClients == 2

\* the sockets that are open: the one wsConnection holds, if open, and the
\* others
OpenSockets == clients + (IF wsConnection = "open" THEN 1 ELSE 0)

\* values the client sets; << >> is null
SetValues == {<< >>, << 0 >>, << 1 >>, << SERVICE_COMMUNICATION_FAILURE >>}

CommitPlatform(p) ==
  /\ accessories' = p.accessories
  /\ cameraStreamingDelegates' = p.cameraStreamingDelegates
  /\ characteristicValueCache' = p.characteristicValueCache
  /\ ignoreNextFullBrightness' = p.ignoreNextFullBrightness
  /\ wsConnection' = p.wsConnection
  /\ UNCHANGED cameraVars

\* the accessory has the Lightbulb whose handlers the host calls
HasLightbulb(uuid) ==
  /\ uuid \in DOMAIN accessories
  /\ accessories[uuid].services = "Lightbulb"

\* configureAccessory: the host restores an accessory from its cache, before
\* startup(): the accessory goes into the map and addAccessory runs on the
\* definition in its context
ConfigureAccessory(payload) ==
  /\ wsConnection = "null"
  /\ CommitPlatform(
       addAccessory([Platform EXCEPT
                       !.accessories = MapSet(@, payload.uuid, payload)],
                    payload).p)
  /\ UNCHANGED << clients, writes >>

\* wss 'connection': a client connects, whatever wsConnection holds: the
\* server takes every client.  this.wsConnection = ws; the socket held
\* before, if open, stays open with its handlers
WsConnect ==
  /\ OpenSockets < MaxClients
  /\ CommitPlatform([Platform EXCEPT !.wsConnection = "open"])
  /\ clients' = OpenSockets
  /\ UNCHANGED writes

\* the 'close' handler of a connection: it assigns nothing to wsConnection
onClose(p) ==
  [p EXCEPT !.characteristicValueCache = [k \in Keys |-> << >>]]

\* a socket closes and its 'close' handler runs.  held: it is the socket
\* wsConnection holds, which is a closed socket from then on
WsClose(held) ==
  /\ IF held THEN wsConnection = "open" ELSE clients > 0
  /\ CommitPlatform([onClose(Platform) EXCEPT
                       !.wsConnection = IF held THEN "closed" ELSE @])
  /\ clients' = IF held THEN clients ELSE clients - 1
  /\ UNCHANGED writes

\* 'message' with topic add-request, on any socket that is open; the
\* response goes to the socket wsConnection holds
AddRequest(payload) ==
  /\ OpenSockets > 0
  /\ CommitPlatform(addAccessory(Platform, payload).p)
  /\ UNCHANGED << clients, writes >>

\* 'message' with topic remove-request
RemoveRequest(uuid) ==
  /\ OpenSockets > 0
  /\ CommitPlatform(removeAccessory(Platform, uuid).p)
  /\ UNCHANGED << clients, writes >>

\* 'message' with topic set-request
SetRequest(uuid, characteristic, value) ==
  /\ OpenSockets > 0
  /\ CommitPlatform(setValue(Platform, uuid, characteristic, value).p)
  /\ UNCHANGED << clients, writes >>

\* the host reads a characteristic: its get handler is onGet, which leaves
\* the platform as it is
HostRead(uuid, characteristic) ==
  /\ HasLightbulb(uuid)
  /\ onGet(Platform, uuid, characteristic).threw \in BOOLEAN
  /\ UNCHANGED vars

\* the Brightness=100 writes whose onSet waits at its 100 ms timer, in the
\* order they came
\*   origin       "host": a write of the host;  "nested": the
\*                brightness.setValue(100) of an On write
\*   accompanied  the write came with an On write that set the default
\*                brightness: it is that On write's own, or the On write
\*                was in the same request or came while the write waited
Write(uuid, origin, accompanied) ==
  [uuid |-> uuid, origin |-> origin, accompanied |-> accompanied]

\* an On write that sets the default brightness has come for uuid
Accompany(ws, uuid) ==
  [i \in 1 .. Len(ws) |->
     IF ws[i].uuid = uuid
       THEN [ws[i] EXCEPT !.accompanied = TRUE]
       ELSE ws[i]]

\* the writes after onSet(uuid, characteristic, value) has run as far as it
\* does at once
AfterSet(ws, p, uuid, characteristic, value) ==
  LET marked == IF Substitutes(p, uuid, characteristic, value)
                  THEN Accompany(ws, uuid) ELSE ws
  IN  IF Nests(p, uuid, characteristic, value)
        THEN Append(marked, Write(uuid, "nested", TRUE))
        ELSE marked

\* the host writes On, or a Brightness other than 100: onSet runs to its end
HostWrite(uuid, characteristic, value) ==
  /\ HasLightbulb(uuid)
  /\ Len(AfterSet(writes, Platform, uuid, characteristic, value)) <= MaxWrites
  /\ CommitPlatform(onSetBody(Platform, uuid, characteristic, value))
  /\ UNCHANGED clients
  /\ writes' = AfterSet(writes, Platform, uuid, characteristic, value)

\* the host writes Brightness=100, by itself or after the On write of the
\* same request (on = << v >>)
HostWriteFull(uuid, on) ==
  /\ HasLightbulb(uuid)
  /\ UNCHANGED clients
  /\ LET sets == on # << >> /\ Substitutes(Platform, uuid, "On", on[1])
         ws == IF on # << >>
                 THEN AfterSet(writes, Platform, uuid, "On", on[1])
                 ELSE writes
     IN  /\ Len(ws) < MaxWrites
         /\ CommitPlatform(IF on # << >>
                             THEN onSetBody(Platform, uuid, "On", on[1])
                             ELSE Platform)
         /\ writes' = Append(ws, Write(uuid, "host", sets))

\* the 100 ms of the oldest waiting Brightness=100 write have passed:
\* timers of one delay fire in their order
TimerFires ==
  /\ writes # << >>
  /\ CommitPlatform(onSetAfterWait(Platform, Head(writes).uuid).p)
  /\ writes' = Tail(writes)
  /\ UNCHANGED clients

NextPlatform ==
  \/ \E payload \in Payloads : ConfigureAccessory(payload)
  \/ WsConnect
  \/ \E held \in BOOLEAN : WsClose(held)
  \/ \E payload \in Payloads : AddRequest(payload)
  \/ \E uuid \in Uuids : RemoveRequest(uuid)
  \/ \E uuid \in Uuids, characteristic \in Characteristics,
        value \in SetValues : SetRequest(uuid, characteristic, value)
  \/ \E uuid \in Uuids, characteristic \in Characteristics :
        HostRead(uuid, characteristic)
  \/ \E uuid \in Uuids, value \in {0, 1} : HostWrite(uuid, "On", value)
  \/ \E uuid \in Uuids : HostWrite(uuid, "Brightness", 50)
  \/ \E uuid \in Uuids, on \in {<< >>, << 1 >>} : HostWriteFull(uuid, on)
  \/ TimerFires

SpecPlatform == InitReuse /\ [][NextPlatform]_vars

----------
(* Vocabulary of the properties *)

Idx == 1 .. Len(sent)
Calls == 1 .. Len(calls)

\* the requests request() built (the ACK is built by send's callback)
Built == {i \in Idx : sent[i].method \in {"INVITE", "BYE"}}
Acks == {i \in Idx : sent[i].method = "ACK"}

\* the attempts of call k: its request and, after a challenge, its retry
Attempts(k) == {i \in Idx : sent[i].call = k}

Is2xx(st) == st >= 200 /\ st < 300
IsChallenge(st) == st = 401 \/ st = 407

\* this step is a call of invite()
InviteStep ==
  /\ Len(calls') = Len(calls) + 1
  /\ calls'[Len(calls')].op = "invite"

----------------------------------------------------------------------------
(* C2: for one transaction, a 401/407 to the first attempt causes exactly   *)
(* one retry and a 2xx to that retry resolves the transaction with the     *)
(* 2xx; a 401/407 to the retry makes the transaction fail and nothing more *)
(* is sent: no call ever has a third attempt.                              *)
C2_OneAuthRetry ==
  /\ \A k \in Calls :
       /\ Cardinality(Attempts(k)) <= 2
       /\ \A i \in Attempts(k) :
            sent[i].isRetry =>
              \E j \in Attempts(k) :
                 /\ j < i /\ ~sent[j].isRetry /\ ~sent[j].open
                 /\ sent[j].method = sent[i].method
       /\ Cardinality({i \in Attempts(k) : ~sent[i].isRetry}) <= 1
       /\ calls[k].tx = "resolved" => Is2xx(calls[k].status)
  /\ \A i \in Idx, resp \in AllResponses :
       sent[i].open =>
         LET w2 == onResponse(World, i, resp)
             k == sent[i].call
             n == Len(sent)
         IN /\ (IsChallenge(resp.status) /\ ~sent[i].isRetry /\ ~destroyed) =>
                 /\ Len(w2.sent) = n + 1
                 /\ w2.sent[n + 1].isRetry
                 /\ w2.sent[n + 1].call = k
                 /\ w2.sent[n + 1].method = sent[i].method
                 /\ w2.calls[k].tx = "pending"
            /\ (Is2xx(resp.status) /\ sent[i].isRetry) =>
                 /\ w2.calls[k].tx = "resolved"
                 /\ w2.calls[k].status = resp.status
                 /\ \A j \in n + 1 .. Len(w2.sent) : w2.sent[j].method = "ACK"
            /\ (IsChallenge(resp.status) /\ sent[i].isRetry) =>
                 /\ w2.calls[k].tx = "rejected"
                 /\ w2.calls[k].status = resp.status
                 /\ Len(w2.sent) = n

\* one call resolved by the 2xx to its retry, another failed by the second
\* challenge
C2_Witness ==
  \E k1, k2 \in Calls :
     /\ calls[k1].tx = "resolved" /\ Cardinality(Attempts(k1)) = 2
     /\ calls[k2].tx = "rejected" /\ Cardinality(Attempts(k2)) = 2
     /\ IsChallenge(calls[k2].status)

----------------------------------------------------------------------------
(* C3: the cseq number of each request built by request() is strictly      *)
(* greater than that of every earlier request of the SipCall, whatever the *)
(* sequence of invite(), sendBye() and retries; the counter never          *)
(* decreases and lies above every number used.                             *)
C3_CseqStrictlyIncreasing ==
  /\ [](/\ \A i, j \in Built : i < j => sent[i].seq < sent[j].seq
        /\ \A i \in Built : sent[i].seq < seq)
  /\ [][seq' >= seq]_vars

\* an INVITE, its retry and a BYE have been sent
C3_Witness ==
  \E i, j, l \in Built :
     /\ i < j /\ j < l
     /\ sent[i].method = "INVITE" /\ sent[j].isRetry /\ sent[l].method = "BYE"

----------------------------------------------------------------------------
(* C4 as claimed: each invite() resets the call-id and the sequence        *)
(* counter and nothing else; neither is reset at any other point.          *)
C4_InviteResetsCallIdAndSeq ==
  [][/\ InviteStep =>
          /\ callId' # callId
          /\ seq' = (IF destroyed THEN InitialSeq ELSE InitialSeq + 1)
          /\ destroyed' = destroyed
     /\ ~InviteStep => (callId' = callId /\ seq' >= seq)]_vars

(* C4 as amended: each invite() makes the id it draws the call-id (the    *)
(* draw may repeat an id used before) and resets nothing else: the         *)
(* sequence counter goes on from its value (it is never reset) and the     *)
(* destroyed flag is kept; the call-id changes at no other point.          *)
C4_InviteResetsCallIdOnly ==
  [][/\ InviteStep =>
          /\ callId' = calls'[Len(calls')].drawn
          /\ seq' = (IF destroyed THEN seq ELSE seq + 1)
          /\ destroyed' = destroyed
     /\ ~InviteStep => (callId' = callId /\ seq' >= seq)]_vars

\* a second invite() on the reused SipCall, after an INVITE and its retry
C4_Witness ==
  \E i, j, l \in Built :
     /\ i < j /\ j < l
     /\ sent[i].method = "INVITE" /\ sent[j].isRetry
     /\ sent[l].method = "INVITE" /\ ~sent[l].isRetry
     /\ sent[l].callId = callId /\ sent[l].callId # sent[i].callId

----------------------------------------------------------------------------
(* C5 as claimed: an ACK is sent if and only if a 2xx arrives for an       *)
(* INVITE, one ACK per such response: the ACKs sent are as many as the     *)
(* INVITE transactions resolved, and none is sent otherwise.               *)
C5_AckIffInvite2xx ==
  Cardinality(Acks) =
    Cardinality({k \in Calls : calls[k].op = "invite" /\ calls[k].tx = "resolved"})

----------------------------------------------------------------------------
(* C6 as claimed: the ACK takes target URI, to, from and cseq number from  *)
(* the response, not from the request; it does not advance the sequence    *)
(* counter and is never retried.                                           *)
C6_AckFromResponse ==
  \A i \in Acks :
     /\ sent[i].uri # CfgTo
     /\ sent[i].to # CfgTo
     /\ sent[i].from # CfgFrom
     /\ ~sent[i].open /\ ~sent[i].isRetry
     /\ sent[i].seq < seq

(* C6 as amended: the ACK takes its target URI from the response's Contact *)
(* and its to/from from the response when the response carries them, and  *)
(* the configured to/from URIs otherwise; its cseq number is the           *)
(* response's; sending it does not advance the sequence counter, and it    *)
(* has no callback, so no response can make it be retried.                 *)
C6_AckFromResponseOrConfig ==
  /\ \A i \in Acks : ~sent[i].open /\ ~sent[i].isRetry /\ sent[i].seq < seq
  /\ \A i \in Idx, resp \in AllResponses :
       (sent[i].open /\ sent[i].method = "INVITE" /\ Is2xx(resp.status)
          /\ RespSeq(sent[i], resp) # 0) =>
         LET w2 == onResponse(World, i, resp)
             a == w2.sent[Len(sent) + 1]
             h == resp.headers
         IN /\ Len(w2.sent) >= Len(sent) + 1
            /\ a.method = "ACK"
            /\ a.uri = (IF h.contact # Absent THEN h.contact ELSE CfgTo)
            /\ a.to = (IF h.to # Absent THEN h.to ELSE CfgTo)
            /\ a.from = (IF h.from # Absent THEN h.from ELSE CfgFrom)
            /\ a.seq = RespSeq(sent[i], resp)
            /\ a.callId = sent[i].callId
            /\ ~a.open
            /\ w2.seq = seq

\* an ACK built from the response's headers and one built from the
\* configured URIs
C6_Witness ==
  \E i, j \in Acks :
     /\ sent[i].uri = "sip:contact" /\ sent[i].to = "sip:to;tag"
     /\ sent[j].uri = CfgTo /\ sent[j].to = CfgTo

----------------------------------------------------------------------------
(* C7: once destroy() has been called the SipCall stays destroyed, and     *)
(* every later invite() fails at once with the call-destroyed error and    *)
(* hands nothing to the signaling stack.                                   *)
C7_InviteAfterDestroyFails ==
  [][/\ destroyed => destroyed'
     /\ (destroyed /\ InviteStep) =>
          /\ sent' = sent
          /\ calls'[Len(calls')].out = "rejected"
          /\ calls'[Len(calls')].err = "destroyed"]_vars

\* two invite() calls made after destroy()
C7_Witness ==
  /\ destroyed
  /\ sent = << >>
  /\ Cardinality({k \in Calls : calls[k].op = "invite"
                     /\ calls[k].err = "destroyed"}) >= 2

----------------------------------------------------------------------------
(* C8: sendBye() never rejects: when its request fails (failure status,    *)
(* second challenge, destroyed call) the promise resolves and the error is *)
(* logged.                                                                 *)
C8_SendByeNeverRejects ==
  \A k \in Calls :
     calls[k].op = "sendBye" =>
       /\ calls[k].out # "rejected"
       /\ calls[k].tx = "rejected" => (calls[k].out = "resolved" /\ calls[k].logged)
       /\ calls[k].tx = "resolved" => (calls[k].out = "resolved" /\ ~calls[k].logged)

\* a BYE failed by a second challenge and a sendBye() on the destroyed call
C8_Witness ==
  \E k1, k2 \in Calls :
     /\ calls[k1].op = "sendBye" /\ calls[k1].tx = "rejected"
     /\ IsChallenge(calls[k1].status)
     /\ calls[k2].op = "sendBye" /\ calls[k2].tx = "rejected"
     /\ calls[k2].status = 0 /\ Attempts(k2) = {}

----------------------------------------------------------------------------
(* Vocabulary of the session properties *)

\* the invite() calls of prepareStream that resolved: INVITE answered 2xx
\* with an SDP answer that parses
SuccessfulInvites ==
  {k \in Calls : calls[k].op = "invite" /\ calls[k].out = "resolved"}

\* the invite() calls of prepareStream that failed
FailedInvites ==
  {k \in Calls : calls[k].op = "invite" /\ calls[k].out = "rejected"}

\* the call-id of the INVITE of call k that was answered: its last attempt
AnsweredCallId(k) ==
  LET i == CHOOSE a \in Attempts(k) : \A b \in Attempts(k) : b <= a
  IN sent[i].callId

\* the BYE requests (retries apart) sent with call-id id
ByesWith(id) ==
  {i \in Idx : sent[i].method = "BYE" /\ ~sent[i].isRetry /\ sent[i].callId = id}

\* the sendBye() calls made by `by` ("prepare" or "stop") for session s
ByeCalls(by, s) ==
  {k \in Calls : calls[k].op = "sendBye" /\ calls[k].by = by /\ calls[k].sess = s}

\* no draw of getRandomId repeated a call-id: the ids of the invite() calls
\* differ from each other and from the constructor's
DrawsDiffer ==
  \A k \in Calls :
     calls[k].op = "invite" =>
       /\ calls[k].drawn # 1
       /\ \A j \in Calls \ {k} :
             calls[j].op = "invite" => calls[j].drawn # calls[k].drawn

\* session s was prepared and is tracked no longer
Ended(s) ==
  /\ prepare[s] = "done"
  /\ s \notin DOMAIN pendingSessions
  /\ s \notin DOMAIN ongoingSessions

----------------------------------------------------------------------------
(* C1 as claimed: for every invite() that resolved, exactly one BYE is     *)
(* sent for that call (with its call-id): never two, and not zero once the *)
(* session that made the call has ended.  Runs with a shutdown, which is   *)
(* none of the claim's events, are left aside, and so are runs in which a  *)
(* random call-id comes out a second time.                                 *)
C1_OneByePerSuccessfulInvite ==
  (~destroyed /\ DrawsDiffer) =>
  \A k \in SuccessfulInvites :
     /\ Cardinality(ByesWith(AnsweredCallId(k))) <= 1
     /\ Ended(calls[k].sess) => Cardinality(ByesWith(AnsweredCallId(k))) = 1

----------------------------------------------------------------------------
(* C9: when the invite() of prepareStream fails (failed transaction,       *)
(* destroyed call, SDP answer that does not parse), prepareStream has      *)
(* still answered the host once with a response, the session was stored as *)
(* pending without remote RTP description and without relay, and           *)
(* prepareStream called sendBye() exactly once; it calls sendBye() only    *)
(* then.                                                                   *)
C9_PrepareSurvivesInviteFailure ==
  /\ \A k \in FailedInvites :
       LET s == calls[k].sess IN
       /\ prepare[s] = "done"
       /\ host[s].prepareCallbacks = 1
       /\ Cardinality(ByeCalls("prepare", s)) = 1
       /\ \A b \in ByeCalls("prepare", s) : b > k
       /\ resources[s].relay = "none"
       /\ s \in DOMAIN pendingSessions =>
            /\ ~pendingSessions[s].sipRemoteRtpDescription
            /\ ~pendingSessions[s].rtpHelper
       /\ s \in DOMAIN ongoingSessions => ~ongoingSessions[s].rtpHelper
       /\ (s \in DOMAIN pendingSessions) \/ resources[s].socket # "none"
  /\ \A s \in Sessions :
       ByeCalls("prepare", s) # {} =>
         \E k \in FailedInvites : calls[k].sess = s

\* two sessions prepared although their invite() failed: one whose SDP
\* answer did not parse, one whose call had been destroyed
C9_Witness ==
  \E k1, k2 \in FailedInvites :
     /\ calls[k1].err = "sdp" /\ calls[k2].err = "destroyed"
     /\ calls[k1].sess \in DOMAIN pendingSessions
     /\ calls[k2].sess \in DOMAIN pendingSessions
     /\ host[calls[k1].sess].prepareCallbacks = 1
     /\ host[calls[k2].sess].prepareCallbacks = 1

----------------------------------------------------------------------------
(* C10: from the start of a session on, 5 x rtcp_interval seconds without  *)
(* a datagram force-stop it, exactly once: an inactivity timer of that     *)
(* delay runs whenever the session is active.                              *)
C10_TimerRunsFromStart ==
  \A s \in Sessions :
     /\ host[s].forceStops <= 1
     /\ s \in DOMAIN ongoingSessions =>
          /\ resources[s].timers = 1
          /\ \E interval \in RtcpIntervals :
                resources[s].delay = 5 * interval * 1000

----------------------------------------------------------------------------
(* Vocabulary of the teardown properties *)

\* session s was started and has been stopped since
Stopped(s) ==
  /\ resources[s].socket \in CloseAttempted
  /\ s \notin DOMAIN ongoingSessions

----------------------------------------------------------------------------
(* C11: stopStream of a session that is not active (stopped already, or    *)
(* set up and never started, or unknown) changes nothing: no BYE is sent,  *)
(* no process stopped, no relay closed.  stopStream twice is stopStream    *)
(* once, and over a whole run no session gets a second BYE from stopStream.*)
C11_StopOfStoppedIsNoOp ==
  \A s \in Sessions :
     /\ Cardinality(ByeCalls("stop", s)) <= 1
     /\ \A f1, f2 \in Failures :
          /\ s \notin DOMAIN ongoingSessions =>
               stopStream(World, s, f1) = World
          /\ stopStream(stopStream(World, s, f1), s, f2)
               = stopStream(World, s, f1)

----------------------------------------------------------------------------
(* C12: stopStream of an active session makes every teardown call          *)
(* whichever of them throw, and does not throw itself: the liveness socket *)
(* is closed, both processes are stopped (the return process when there is *)
(* one), the BYE is sent when SIP is configured, the relay is closed when  *)
(* there is one, the timer is disarmed, and the session leaves             *)
(* ongoingSessions.  This holds for a process that had exited by itself    *)
(* too.                                                                    *)
C12_TeardownCallsIndependent ==
  /\ \A s \in Sessions :
       Stopped(s) =>
         /\ resources[s].mainProcess \in StopAttempted
         /\ resources[s].returnProcess \in StopAttempted \cup {"none"}
         /\ resources[s].relay \in CloseAttempted \cup {"none"}
         /\ resources[s].timers = 0
         /\ sipConfig => Cardinality(ByeCalls("stop", s)) = 1
  /\ \A s \in DOMAIN ongoingSessions :
       \A fails \in Failures :
          LET w == stopStream(World, s, fails) IN
          /\ ~stopStreamThrows(World, s, fails)
          /\ s \notin DOMAIN w.ongoingSessions
          /\ w.resources[s].socket \in CloseAttempted
          /\ w.resources[s].mainProcess \in StopAttempted
          /\ w.resources[s].returnProcess # "running"
          /\ w.resources[s].relay # "open"
          /\ sipConfig => Len(w.calls) = Len(calls) + 1

----------------------------------------------------------------------------
(* C13: the state of a session id, read from the two maps, moves only      *)
(* pending -> active -> destroyed or pending -> destroyed (and from        *)
(* unknown to pending when it is set up); it never goes back.              *)

\* the state of session id s
SessionState(s) ==
  IF s \in DOMAIN ongoingSessions THEN "active"
  ELSE IF s \in DOMAIN pendingSessions THEN "pending"
  ELSE IF host[s].prepareCallbacks > 0 THEN "destroyed"
  ELSE "unknown"

SessionMoves ==
  { <<"unknown", "pending">>, <<"pending", "active">>,
    <<"active", "destroyed">>, <<"pending", "destroyed">> }

C13_SessionStateOneWay ==
  [][\A s \in Sessions :
        \/ SessionState(s)' = SessionState(s)
        \/ <<SessionState(s), SessionState(s)'>> \in SessionMoves]_vars

----------------------------------------------------------------------------
(* C14: startStream for a session id that is not pending gives the host's  *)
(* callback an error and does nothing else: no process is started, no      *)
(* socket bound, and both maps stay as they are.  A second start of an id  *)
(* is such a call.                                                         *)
C14_StartOfUnknownSessionFails ==
  \A s \in Sessions :
     /\ s \notin DOMAIN pendingSessions =>
          \A interval \in RtcpIntervals :
             startStream(World, s, interval)
               = [World EXCEPT !.host[s].startError = TRUE]
     /\ host[s].startError => host[s].prepareCallbacks = 1
     /\ s \in DOMAIN ongoingSessions =>
          /\ resources[s].socket = "bound"
          /\ resources[s].mainProcess = "running"

\* a session started twice: the second start was refused and the session
\* runs as before; and a session started again after it was stopped, which
\* stays stopped
C14_Witness ==
  \E s1, s2 \in Sessions :
     /\ host[s1].startError
     /\ s1 \in DOMAIN ongoingSessions
     /\ resources[s1].mainProcess = "running"
     /\ host[s2].startError
     /\ Stopped(s2)
     /\ resources[s2].mainProcess = "stopped"

----------------------------------------------------------------------------
(* C15: a step that tears session S down by force (one of its processes    *)
(* exited or its inactivity timer expired: the host is told; a socket      *)
(* error runs the same stopStream) leaves                                  *)
(* every other session as it was: its map entries, its timer, socket,      *)
(* processes and relay, what the host was told about it, and its SIP call: *)
(* no request sent in that step carries the call-id of another session's   *)
(* INVITE.                                                                 *)

\* the call-ids of the INVITEs prepareStream sent for session t
CallIdsOf(t) ==
  {sent[i].callId : i \in {j \in Idx : sent[j].method = "INVITE"
                                       /\ sent[j].call \in Calls
                                       /\ calls[sent[j].call].sess = t}}

\* map entry of t, or a mark for none
Entry(m, t) == IF t \in DOMAIN m THEN <<m[t]>> ELSE << >>

C15_TeardownOfOneSessionOnly ==
  [][\A s \in Sessions :
        (/\ DrawsDiffer
         /\ s \in DOMAIN ongoingSessions
         /\ s \notin DOMAIN ongoingSessions'
         /\ host'[s].forceStops = host[s].forceStops + 1) =>
          \A t \in Sessions \ {s} :
             /\ resources'[t] = resources[t]
             /\ host'[t] = host[t]
             /\ Entry(pendingSessions', t) = Entry(pendingSessions, t)
             /\ Entry(ongoingSessions', t) = Entry(ongoingSessions, t)
             /\ \A i \in (Len(sent) + 1) .. Len(sent') :
                   sent'[i].callId \notin CallIdsOf(t)]_vars

----------------------------------------------------------------------------
(* C16: on the one SipCall no two transactions overlap: a request is       *)
(* handed to the stack only when every request before it has had its       *)
(* final response, so at most one request is open at any time.             *)
C16_TransactionsNeverOverlap ==
  Cardinality({i \in Idx : sent[i].open}) <= 1

----------------------------------------------------------------------------
(* C17: a final response that arrives after the call was destroyed, or     *)
(* after the session its request was sent for was torn down, is            *)
(* discarded: the step sends nothing (no ACK, no retry), creates no relay  *)
(* and stores no session.                                                  *)

\* this step delivers a final response to request i
FinalResponseTo(i) == sent[i].open /\ ~sent'[i].open

\* the session request i was sent for is no longer tracked
OwnerTornDown(i) ==
  LET k == sent[i].call IN
  /\ k \in Calls
  /\ calls[k].sess \in Sessions
  /\ Ended(calls[k].sess)

\* the step sends nothing and leaves the sessions as they are
Discarded ==
  /\ Len(sent') = Len(sent)
  /\ pendingSessions' = pendingSessions
  /\ ongoingSessions' = ongoingSessions
  /\ resources' = resources

C17_LateResponseDiscarded ==
  [][\A i \in Idx :
        (FinalResponseTo(i) /\ (destroyed \/ OwnerTornDown(i))) => Discarded]_vars

----------------------------------------------------------------------------
(* Vocabulary of the response properties *)

\* the provisional responses, and one final response of each class
Provisionals == {r \in AllResponses : r.status < 200}
Finals ==
  {r \in AllResponses : r.status >= 200 /\ r.headers = UsualHeaders
                        /\ r.content = GoodSdp}
\* the failures that are not challenges
Refusals == {r \in Finals : ~Is2xx(r.status) /\ ~IsChallenge(r.status)}

----------------------------------------------------------------------------
(* C18: a 1xx response to an open request changes nothing: the transaction *)
(* is neither resolved nor rejected and nothing is sent.  The request      *)
(* stays open with its transaction pending, and a final response after     *)
(* the 1xx still ends it: the transaction is settled, or, after a          *)
(* challenge to a first attempt, carried on by the retry.                  *)
C18_ProvisionalIgnored ==
  \A i \in Idx :
     sent[i].open =>
       /\ calls[sent[i].call].tx = "pending"
       /\ \A p \in Provisionals :
            /\ onResponse(World, i, p) = World
            /\ \A f \in Finals :
                 LET w == onResponse(onResponse(World, i, p), i, f)
                     k == sent[i].call
                 IN /\ ~w.sent[i].open
                    /\ \/ w.calls[k].tx # "pending"
                       \/ /\ Len(w.sent) = Len(sent) + 1
                          /\ w.sent[Len(w.sent)].isRetry
                          /\ w.sent[Len(w.sent)].open

\* an INVITE and a BYE both open, waiting: a 1xx for either comes next
C18_Witness ==
  \E i, j \in Idx :
     /\ sent[i].open /\ sent[i].method = "INVITE"
     /\ sent[j].open /\ sent[j].method = "BYE"
     /\ \A p \in Provisionals : ENABLED StackResponse(i, p)

----------------------------------------------------------------------------
(* C19: a final response to a first attempt whose status is neither 2xx    *)
(* nor 401/407 fails the transaction at once with the status in the        *)
(* error: the step sends nothing (no retry, no ACK) and leaves the         *)
(* sequence counter alone, and a call that failed so has no request open.  *)
C19_OtherStatusFailsAtOnce ==
  /\ \A i \in Idx :
       (sent[i].open /\ ~sent[i].isRetry) =>
         \A f \in Refusals :
            LET w == onResponse(World, i, f)
                k == sent[i].call
            IN /\ w.sent = [sent EXCEPT ![i].open = FALSE]
               /\ w.calls[k].tx = "rejected"
               /\ w.calls[k].status = f.status
               /\ w.seq = seq
  /\ \A k \in Calls :
       (calls[k].tx = "rejected" /\ calls[k].status # 0
          /\ ~IsChallenge(calls[k].status)) =>
         \A i \in Attempts(k) : ~sent[i].open

\* an invite() and a sendBye() each refused with 486 on the first attempt
C19_Witness ==
  \E k1, k2 \in Calls :
     /\ calls[k1].op = "invite" /\ calls[k2].op = "sendBye"
     /\ \A k \in {k1, k2} :
          /\ calls[k].tx = "rejected"
          /\ calls[k].status = 486
          /\ Cardinality(Attempts(k)) = 1
     /\ Acks = {}

----------------------------------------------------------------------------
(* C20: an inbound BYE is answered with a 200 for that request (its        *)
(* call-id and cseq) and changes nothing of the SipCall: call-id, sequence *)
(* counter, destroyed flag and the pending calls stay; an inbound request  *)
(* of another method is not answered and changes nothing.                  *)
C20_InboundByeAnswered ==
  /\ \A rq \in InboundRequests :
       LET w == onRequest(World, rq)
           n == Len(sent)
       IN /\ w.seq = seq /\ w.callId = callId /\ w.destroyed = destroyed
          /\ w.calls = calls
          /\ rq.method # "BYE" => w = World
          /\ rq.method = "BYE" =>
               /\ Len(w.sent) = n + 1
               /\ SubSeq(w.sent, 1, n) = sent
               /\ w.sent[n + 1].method = "200"
               /\ w.sent[n + 1].callId = rq.callId
               /\ w.sent[n + 1].seq = rq.seq
               /\ ~w.sent[n + 1].open
  /\ \A i \in Replies : sent[i].seq = 1 /\ sent[i].call = 0
  /\ seq = InitialSeq + Cardinality(Built)

\* the remote party hung up in the middle of a call (INVITE answered, ACK
\* sent) and got its 200; the client's BYE went out afterwards
C20_Witness ==
  \E i, j, r \in Idx :
     /\ i < r /\ r < j
     /\ sent[i].method = "ACK"
     /\ sent[r].method = "200" /\ sent[r].callId = sent[i].callId
     /\ sent[j].method = "BYE" /\ sent[j].callId = sent[i].callId
     /\ ~destroyed

----------------------------------------------------------------------------
(* C21: when reservePorts fails in prepareStream, the prepare callback is   *)
(* called (with the error) in answer to that call, and the call stores no  *)
(* pending session.                                                        *)
C21_ReservationFailureReported ==
  [][\A s \in Sessions :
       (prepare[s] = "reserving" /\ prepare'[s] = "rejected") =>
          /\ host'[s].prepareCallbacks = host[s].prepareCallbacks + 1
          /\ pendingSessions' = pendingSessions]_vars

----------------------------------------------------------------------------
(* Ports *)

\* the session under id s holds a reservation and is not over
Live(s) ==
  \/ prepare[s] = "inviting"
  \/ s \in DOMAIN pendingSessions
  \/ s \in DOMAIN ongoingSessions

PortsOf(s) == Range(resources[s].ports)

(* C22: two sessions that are live at the same time hold no port in common, *)
(* and the ports one reservation returned are all distinct.                *)
C22_LiveSessionsShareNoPort ==
  /\ \A s \in Sessions :
        Live(s) =>
          /\ Len(resources[s].ports) = (IF sipConfig THEN 8 ELSE 4)
          /\ Cardinality(PortsOf(s)) = Len(resources[s].ports)
  /\ \A s, t \in Sessions :
        (s # t /\ Live(s) /\ Live(t)) => PortsOf(s) \cap PortsOf(t) = {}

\* two sessions are live, one of them set up after an earlier session under
\* its id was over
C22_Witness ==
  \E s, t \in Sessions :
     /\ s # t /\ Live(s) /\ Live(t)
     /\ host[s].prepareCallbacks = 2
     /\ PortsOf(s) # {} /\ PortsOf(t) # {}

(* C23: the ports reserved for a session stay reserved while the session   *)
(* is live and are released when it is destroyed (stop, forced stop or     *)
(* socket error): from then on they are free in the allocator, for a later *)
(* reservation to hand out.                                                *)
C23_PortsReleasedOnDestroy ==
  \A s \in Sessions :
     /\ Live(s) => PortsOf(s) \subseteq reservedPorts
     /\ (prepare[s] = "done" /\ Over(s)) =>
           PortsOf(s) \cap reservedPorts = {}

----------------------------------------------------------------------------
(* C24: a RECONFIGURE request is answered without error and changes        *)
(* nothing: for every session, whatever state it is in, the handler leaves *)
(* the maps, the timers, sockets, processes and relays, the allocator and  *)
(* the SIP call as they were, and the host has its answer.                 *)
C24_ReconfigureChangesNothing ==
  \A s \in Sessions :
     LET w2 == reconfigure(World, s) IN
     /\ w2.host[s].reconfigured
     /\ w2.host[s].startError = host[s].startError
     /\ w2.host[s].forceStops = host[s].forceStops
     /\ [w2 EXCEPT !.host = host] = World

\* a RECONFIGURE was answered for a session that is active with its timer
\* armed, its relay open and its SIP call answered
C24_Witness ==
  \E s \in Sessions :
     /\ host[s].reconfigured
     /\ s \in DOMAIN ongoingSessions
     /\ resources[s].timers = 1
     /\ resources[s].relay = "open"
     /\ resources[s].returnProcess = "running"
     /\ \E k \in 1 .. Len(calls) :
          calls[k].sess = s /\ calls[k].out = "resolved"

----------------------------------------------------------------------------
(* C25: destroy() never throws, in whatever state it is called (an INVITE  *)
(* or BYE awaiting its response, the call already destroyed) and whether   *)
(* or not the signaling stack's own destroy throws; afterwards the call is *)
(* destroyed.                                                              *)
C25_DestroyNeverThrows ==
  \A stackThrows \in BOOLEAN :
     LET r == destroy(World, stackThrows) IN
     /\ ~r.threw
     /\ r.w.destroyed

\* destroy() was called while an INVITE and a BYE awaited their responses
C25_Witness ==
  /\ destroyed
  /\ \E i, j \in 1 .. Len(sent) :
       /\ sent[i].method = "INVITE" /\ sent[i].open
       /\ sent[j].method = "BYE" /\ sent[j].open

----------------------------------------------------------------------------
(* SDP *)

\* the answer was parsed, with outcome d
Parsed(d) == rtpDescription = << d >>

\* the outcomes parseRtpDescription can have
Outcomes == {parseRtpDescription(body) : body \in SdpBodies}

(* C26: for every SDP answer with an m=audio line (with a port) and a c=    *)
(* line, the parsed audio port is the port of the m=audio line, and the    *)
(* parsed RTCP port is the value of the a=rtcp: attribute when there is    *)
(* one and the RTP port + 1 otherwise.                                     *)
C26_PortsRoundTrip ==
  \A d \in Outcomes :
     (Parsed(d) /\ sdp.audio /\ sdp.port # << >> /\ sdp.c # Absent) =>
        /\ d.ok
        /\ d.port = sdp.port[1]
        /\ d.rtcpPort = IF sdp.rtcp # << >> THEN sdp.rtcp[1]
                        ELSE sdp.port[1] + 1

(* C26 as amended: the same for the answers whose c= line is "c=IN IP4",   *)
(* with the RTCP port being the a=rtcp: value when there is one and it is  *)
(* a number other than 0, and the RTP port + 1 otherwise.                  *)
C26_PortsRoundTripIPv4 ==
  \A d \in Outcomes :
     (Parsed(d) /\ sdp.audio /\ sdp.port # << >> /\ sdp.c = "IN IP4") =>
        /\ d.ok
        /\ d.port = sdp.port[1]
        /\ d.rtcpPort = IF sdp.rtcp # << >> /\ sdp.rtcp[1] # 0
                        THEN sdp.rtcp[1]
                        ELSE sdp.port[1] + 1

\* an answer with a=rtcp:6000 for m=audio 5004 was parsed: RTCP port 6000
C26_Witness ==
  \E d \in Outcomes :
     /\ Parsed(d) /\ d.ok
     /\ sdp.port = <<5004>> /\ sdp.rtcp = <<6000>>
     /\ d.port = 5004 /\ d.rtcpPort = 6000

\* the errors getRtpDescription throws for an answer it cannot use
MalformedSdpErrors ==
  {"Error: No m line found", "Error: No port found in m line"}

(* C27: parsing an SDP answer that has no m=audio line, or no connection   *)
(* line, or whose m=audio line has no port, fails with the malformed-SDP   *)
(* error and with no other kind of error, and the raw text of the answer   *)
(* is kept for diagnostics.                                                *)
C27_MalformedSdpError ==
  \A d \in Outcomes :
     (Parsed(d) /\ (~sdp.audio \/ sdp.c = Absent \/ sdp.port = << >>)) =>
        /\ ~d.ok
        /\ d.err \in MalformedSdpErrors
        /\ d.rawLogged

----------------------------------------------------------------------------
(* C28: a session object has at most one inactivity timer armed, that of   *)
(* the object in ongoingSessions with a delay of 5 x rtcp_interval         *)
(* seconds; a datagram on a liveness socket cancels the armed timer of the *)
(* socket's session object and arms a new one, so the timer that is armed  *)
(* is the one the last datagram armed.  This holds also of the session     *)
(* objects a second startStream of an id replaced in the map.              *)
C28_OneTimerRearmedByDatagram ==
  \A s \in Sessions :
     LET r == resources[s]
         own == r.timers - r.stale
     IN
     /\ own \in {0, 1}
     /\ r.stale <= r.replaced
     /\ own = 1 =>
          /\ s \in DOMAIN ongoingSessions
          /\ ongoingSessions[s].timeout
          /\ r.delay \in {i * 5 * 1000 : i \in RtcpIntervals}
     /\ r.socket = "bound" =>
          LET w2 == onMessage(World, s) IN
          /\ w2.resources[s].timers - w2.resources[s].stale = 1
          /\ w2.resources[s].stale = r.stale
          /\ w2.ongoingSessions[s].timeout
          /\ w2.resources[s].delay = r.delay
          /\ \A t \in Sessions \ {s} : w2.resources[t] = resources[t]
     /\ r.stale > 0 => onMessageReplaced(World, s, TRUE) = World
     /\ r.replaced > r.stale =>
          LET w3 == onMessageReplaced(World, s, FALSE) IN
          /\ w3.resources[s].stale = r.stale + 1
          /\ w3.resources[s].timers = r.timers + 1
          /\ w3.ongoingSessions = ongoingSessions

\* one session is active with its timer armed by a datagram; the other id
\* was started twice, and the object in the map and the one it replaced
\* have a timer each
C28_Witness ==
  \E s, t \in Sessions :
     /\ s \in DOMAIN ongoingSessions
     /\ resources[s].socket = "bound"
     /\ resources[s].replaced = 0
     /\ resources[s].timers = 1
     /\ t \in DOMAIN ongoingSessions
     /\ resources[t].replaced = 1
     /\ resources[t].stale = 1
     /\ resources[t].timers = 2

----------------------------------------------------------------------------
(* C29: after stopStream(id) the id is in neither pendingSessions nor      *)
(* ongoingSessions and the session's relay and SIP call are released (the  *)
(* relay is not left open; a call that was answered gets its BYE), in      *)
(* whatever state the session was, prepared and never started included.    *)
C29_StopReleasesSession ==
  \A s \in Sessions :
     LET w2 == stopStream(World, s, NoFailure)
         answered ==
           \/ s \in DOMAIN pendingSessions
                /\ pendingSessions[s].sipRemoteRtpDescription
           \/ s \in DOMAIN ongoingSessions /\ ongoingSessions[s].rtpHelper
     IN /\ s \notin DOMAIN w2.pendingSessions
        /\ s \notin DOMAIN w2.ongoingSessions
        /\ w2.resources[s].relay # "open"
        /\ (answered /\ ~destroyed) =>
              /\ Len(w2.sent) = Len(sent) + 1
              /\ w2.sent[Len(w2.sent)].method = "BYE"

----------------------------------------------------------------------------
(* C30: the SHUTDOWN handler stops every session of ongoingSessions before *)
(* it destroys the SIP call: after it ongoingSessions is empty and no      *)
(* session has a timer armed, a socket bound or a process running.         *)
C30_ShutdownStopsSessions ==
  \A stackThrows \in BOOLEAN :
     LET w2 == onShutdown(World, stackThrows) IN
     /\ DOMAIN w2.ongoingSessions = {}
     /\ \A s \in Sessions :
          /\ w2.resources[s].timers = 0
          /\ w2.resources[s].socket # "bound"
          /\ w2.resources[s].mainProcess # "running"
          /\ w2.resources[s].returnProcess # "running"

----------------------------------------------------------------------------
(* C31: every BYE sent when session s is stopped carries the call-id of    *)
(* the INVITE made in s's own prepareStream, also when the prepareStream   *)
(* of another session has made a newer INVITE on the SipCall in between.   *)
(* Runs in which a random call-id comes out a second time are left aside.  *)
C31_ByeCarriesOwnCallId ==
  \A i \in Idx :
     (/\ DrawsDiffer
      /\ sent[i].method = "BYE"
      /\ sent[i].call \in Calls
      /\ calls[sent[i].call].by = "stop") =>
        sent[i].callId \in CallIdsOf(calls[sent[i].call].sess)

----------------------------------------------------------------------------
(* C32: with SIP configured, the return-audio process of a session is      *)
(* aimed at SIP relay ports only if the session's own INVITE succeeded,    *)
(* and then at the session's own SIP-incoming ports: never at the ports of *)
(* another session.                                                        *)
C32_ReturnAudioAimedAtOwnPorts ==
  \A s \in Sessions :
     (sipConfig /\ resources[s].aimedAt # << >>) =>
        /\ resources[s].aimedAt = << s >>
        /\ \E k \in SuccessfulInvites : calls[k].sess = s

----------------------------------------------------------------------------
(* C33: once stopStream has run for an active session no inactivity timer  *)
(* of the session is armed, so none fires later: a session that is not in  *)
(* ongoingSessions has no timer, and forceStopStreamingSession is called   *)
(* only for a session that is in ongoingSessions when the call is made.    *)
C33_NoTimerAfterStop ==
  [][\A s \in Sessions :
       /\ s \notin DOMAIN ongoingSessions' => resources'[s].timers = 0
       /\ host'[s].forceStops # host[s].forceStops =>
             s \in DOMAIN ongoingSessions]_vars

----------------------------------------------------------------------------
(* C34: every prepareStream call invokes its callback exactly once: never  *)
(* twice, and a call that has come to its end, whichever way it went, has  *)
(* invoked it.                                                             *)
C34_PrepareCallbackExactlyOnce ==
  \A s \in Sessions :
     /\ host[s].prepareCallbacks <= 1
     /\ prepare[s] \in {"done", "rejected"} => host[s].prepareCallbacks = 1

----------------------------------------------------------------------------
(* The platform *)

\* addAccessory(payload) applied to the platform as it is
Added(payload) == addAccessory(Platform, payload)

(* C35 as stated: addAccessory returns ack=true exactly when the accessory *)
(* is in the accessories map after the call, and with ack=false the        *)
(* accessories map and the camera-delegate map are as before the call.     *)
C35_AckExactlyWhenInMap ==
  \A payload \in Payloads :
     /\ Added(payload).ack <=>
           payload.uuid \in DOMAIN Added(payload).p.accessories
     /\ ~Added(payload).ack =>
           /\ Added(payload).p.accessories = accessories
           /\ Added(payload).p.cameraStreamingDelegates =
                 cameraStreamingDelegates

(* C35, amended: ack=true only when the accessory is in the accessories    *)
(* map after the call; with ack=false the camera-delegate map is as        *)
(* before, and the accessories map is as before except that the accessory  *)
(* of the request is out of it when its services or characteristics could  *)
(* not be added.                                                           *)
C35_AckOnlyWhenInMap ==
  \A payload \in Payloads :
     /\ Added(payload).ack =>
           payload.uuid \in DOMAIN Added(payload).p.accessories
     /\ ~Added(payload).ack =>
           /\ Added(payload).p.cameraStreamingDelegates =
                 cameraStreamingDelegates
           /\ Added(payload).p.accessories =
                 IF /\ payload.services \notin {"none", "unknown"}
                    /\ addServicesToAccessory(Platform, payload).error
                   THEN MapDelete(accessories, payload.uuid)
                   ELSE accessories

\* an accessory with a camera is in the map, and an add-request for it whose
\* characteristics cannot be added takes it out and leaves its delegate
C35_Witness ==
  \E payload \in Payloads :
     /\ payload.uuid \in DOMAIN accessories
     /\ payload.uuid \in cameraStreamingDelegates
     /\ ~Added(payload).ack
     /\ payload.uuid \notin DOMAIN Added(payload).p.accessories
     /\ payload.uuid \in Added(payload).p.cameraStreamingDelegates

\* this step ends the wait of the oldest waiting Brightness=100 write, and
\* the write is dropped: it is neither cached nor sent on
DropStep ==
  /\ writes # << >>
  /\ writes' = Tail(writes)
  /\ onSetAfterWait(Platform, Head(writes).uuid).dropped

(* C36: a Brightness=100 write is dropped only when it accompanies the On  *)
(* write that set the default brightness; any other one is cached and      *)
(* sent on.                                                                *)
C36_DroppedOnlyWithOnWrite ==
  [][DropStep => Head(writes).accompanied]_vars

\* what onGet does for every characteristic on platform p
Gets(p) == [key \in Keys |-> onGet(p, key[1], key[2])]

\* onGet returns v; onGet throws a HapStatusError with status v
Returned(v) == [threw |-> FALSE, v |-> v]
Thrown(v) == [threw |-> TRUE, v |-> v]

\* onGet for a value that addAccessory or setValue cached, when a HAP status
\* code is cached as the error to throw
ReturnedOrThrown(v) == IF isHAPStatus(v) THEN Thrown(v) ELSE Returned(v)

\* the values the host writes to a characteristic, Brightness=100 apart
HostValues == {0, 1, 50}

\* what every operation of the platform does to the results of onGet, on the
\* platform as it is.  Checked(v) is the result for a value v that
\* addAccessory or setValue cached.  An operation that caches nothing for a
\* characteristic leaves its result as it was; a platform that has cached
\* nothing, and one whose client's socket has closed, throws
\* NOT_ALLOWED_IN_CURRENT_STATE for every characteristic
GetFollowsCache(Checked(_)) ==
  LET now == Gets(Platform)
      none == [key \in Keys |-> Thrown(NOT_ALLOWED_IN_CURRENT_STATE)]
      brightness(uuid) == cacheKey(uuid, "Brightness")
  IN
  /\ InitPlatform => now = none
  /\ Gets(onClose(Platform)) = none
  /\ \A payload \in Payloads :
        Gets(addAccessory(Platform, payload).p) =
          IF /\ payload.on # << >>
             /\ payload.services \in {"unknownCharacteristic", "Lightbulb"}
            THEN [now EXCEPT ![cacheKey(payload.uuid, "On")] =
                                Checked(payload.on[1])]
            ELSE now
  /\ \A uuid \in Uuids : Gets(removeAccessory(Platform, uuid).p) = now
  /\ \A uuid \in Uuids, characteristic \in Characteristics,
        value \in SetValues :
        LET r == setValue(Platform, uuid, characteristic, value)
        IN  Gets(r.p) =
              IF r.ack
                THEN [now EXCEPT ![cacheKey(uuid, characteristic)] =
                                    Checked(value[1])]
                ELSE now
  /\ \A uuid \in Uuids :
        HasLightbulb(uuid) =>
          /\ \A characteristic \in Characteristics, value \in HostValues :
                LET default == accessories[uuid].defaultOnBrightness
                    set == /\ characteristic = "On" /\ value # 0
                           /\ now[cacheKey(uuid, "On")] \in
                                 {Thrown(NOT_ALLOWED_IN_CURRENT_STATE),
                                  Returned(0)}
                           /\ default \notin {0, 100}
                    before == IF set
                                THEN [now EXCEPT ![brightness(uuid)] =
                                                    Returned(default)]
                                ELSE now
                IN  Gets(onSetBody(Platform, uuid, characteristic, value)) =
                      [before EXCEPT ![cacheKey(uuid, characteristic)] =
                                        Returned(value)]
          /\ LET r == onSetAfterWait(Platform, uuid)
             IN  Gets(r.p) =
                   IF r.dropped THEN now
                   ELSE [now EXCEPT ![brightness(uuid)] = Returned(100)]

(* C37 as stated: onGet returns the value most recently cached for the     *)
(* characteristic by addAccessory, setValue or onSet, and throws           *)
(* NOT_ALLOWED_IN_CURRENT_STATE when none is cached; once the client has   *)
(* disconnected every onGet throws until a new value is set.               *)
C37_GetReturnsCached == GetFollowsCache(Returned)

(* C37, amended: onGet returns the value most recently cached for the      *)
(* characteristic, or throws it when addAccessory or setValue cached it as *)
(* a HAP status error, and throws NOT_ALLOWED_IN_CURRENT_STATE when none   *)
(* is cached; once the client has disconnected every onGet throws          *)
(* NOT_ALLOWED_IN_CURRENT_STATE until a new value is set.                  *)
C37_GetReturnsOrThrowsCached == GetFollowsCache(ReturnedOrThrown)

\* the socket wsConnection holds has closed, which cleared the cache, and an
\* older client is still connected: it has since set a status error for On,
\* which onGet throws, and the host has written the brightness, which onGet
\* returns
C37_Witness ==
  /\ wsConnection = "closed"
  /\ clients = 1
  /\ writes = << >>
  /\ Gets(Platform) =
        [key \in Keys |->
           IF key[2] = "On" THEN Thrown(SERVICE_COMMUNICATION_FAILURE)
           ELSE Returned(100)]

====
